---- MODULE Spec2Model ----
(***************************************************************************)
(* A model of discord-comfyui's ComfyUI client: the execution tracker      *)
(* ComfyUIClient.track_progress (src/src/discord_comfyui/comfyui.py), the  *)
(* frames it reads from the websocket, the observer it forwards events to, *)
(* and the filename it returns; the client's other calls (connect,         *)
(* queue_prompt, get_image, close); and the bot's image generation command *)
(* (src/src/discord_comfyui/commands/generate_image.py) that drives one    *)
(* client per request under the per-user lock.                             *)
(*                                                                         *)
(* Spec is one track_progress call over every kind of frame, ClientSpec    *)
(* one client under any order of its calls, with close() running beside    *)
(* track_progress, and FlowSpec the generation command under concurrent    *)
(* requests (FlowFairSpec: with every await ending).  TemplateSpec is the  *)
(* life of one WorkflowTemplate                                            *)
(* (src/src/discord_comfyui/workflow_template.py): construction with its   *)
(* validation, get_model_name, update_prompts, and the rendering asked of  *)
(* WorkflowJson; AccessorSpec applies _get_node_value and _set_node_value  *)
(* to every node, path and value of a bounded universe.                    *)
(***************************************************************************)
EXTENDS Integers, Sequences, FiniteSets, TLC

VARIABLES
    websocket,       \* self.websocket: "None", or "open" after connect()
    pc,              \* where the track_progress call is: "idle" (not called),
                     \* "recv" (awaiting websocket.recv()), "callback" (awaiting
                     \* the callback), "done" (returned), "failed" (raised)
    prompt_id,       \* track_progress's argument prompt_id
    callback,        \* track_progress's argument callback
    image_filename,  \* track_progress's local image_filename
    received,        \* the frames websocket.recv() returned to track_progress
    forwarded,       \* the events the callback was called with, in order
    error,           \* the exception track_progress raised ("" when none)
    returned,        \* the value track_progress returned (set when it did)
    client_id,       \* self.client_id
    ws_url,          \* self.ws_url
    http_client,     \* self.http_client: "open", or "closed" after aclose()
    conn,            \* the websocket connection: "none" (never opened), "open",
                     \* "closing" (websocket.close() is awaited), "closed"
    handshake,       \* the frames connect() read
    opened,          \* the URLs websockets.connect() was called with
    http_log,        \* the HTTP requests sent, in order
    close_pc,        \* where the close() call is: "idle" (no call in progress),
                     \* "ws_close" (awaiting websocket.close()), "aclose"
                     \* (awaiting http_client.aclose())
    closes,          \* the number of close() calls so far
    ws_closes,       \* the number of websocket.close() calls so far
    api_error,       \* the exception the last connect, queue_prompt, get_image
                     \* or close call raised ("" when none)
    generations,     \* the gen_image requests: for each its user, where it is,
                     \* its locals (client, generation_request, response,
                     \* image_filename) and what it did
    generation_locks, \* bot._generation_locks: user id -> lock (0: no entry)
    locks_made,      \* the number of asyncio.Lock objects created
    locked,          \* the locks that are held
    running,         \* GenerateImageCommand._running
    clients_made,    \* the number of ComfyUIClient objects constructed
    submitted,       \* the number of prompts the server has queued
    template,        \* a WorkflowTemplate: whether it was constructed, its
                     \* workflow_data and template_config, the error its
                     \* constructor raised
    template_call    \* the last call made on the workflow classes: its
                     \* arguments, the exception it raised, the value it
                     \* returned, the mapping it changed before and after

trackVars == <<websocket, pc, prompt_id, callback, image_filename, received, forwarded,
               error, returned>>

clientVars == <<client_id, ws_url, http_client, conn, handshake, opened, http_log,
                close_pc, closes, ws_closes, api_error>>

flowVars == <<generations, generation_locks, locks_made, locked, running,
              clients_made, submitted>>

templateVars == <<template, template_call>>

vars == <<trackVars, clientVars, flowVars, templateVars>>

\* The number of frames one track_progress call is given.
MaxFrames == 3

(***************************************************************************)
(* Python values.  Every value is a record of one shape, so that values of *)
(* different Python types can be compared: t is the type ("null", "int",   *)
(* "str", "bytes", "list", "dict"), s the text of a str, n the number of   *)
(* an int, b the bytes of a bytes object, items the entries of a list (in  *)
(* order, keys unused) or of a dict (key k, value v).                      *)
(***************************************************************************)
JNull == [t |-> "null", s |-> "", n |-> 0, b |-> <<>>, items |-> <<>>]

JStr(x) == [t |-> "str", s |-> x, n |-> 0, b |-> <<>>, items |-> <<>>]

JInt(x) == [t |-> "int", s |-> "", n |-> x, b |-> <<>>, items |-> <<>>]

JBytes(x) == [t |-> "bytes", s |-> "", n |-> 0, b |-> x, items |-> <<>>]

KV(key, value) == [k |-> key, v |-> value]

JDict(entries) == [t |-> "dict", s |-> "", n |-> 0, b |-> <<>>, items |-> entries]

\* A list's entry: a value without a key.
Item(value) == KV("", value)

JList(entries) == [t |-> "list", s |-> "", n |-> 0, b |-> <<>>, items |-> entries]

(***************************************************************************)
(* The outcome of evaluating a Python expression: the exception raised     *)
(* (exc, "" when none) and the value.                                      *)
(***************************************************************************)
Ok(value) == [exc |-> "", val |-> value]

Raise(e) == [exc |-> e, val |-> JNull]

\* The first character of the strings the frames of this model carry
\* (Python's s[0] on a str).
FirstChar(str) ==
    CASE str = "text" -> "t"
      [] str = "out_001.png" -> "o"
      [] str = "other.png" -> "o"
      [] OTHER -> "?"

\* obj.get(key) in place of obj[key]: None for an absent key.
GetItemKeyOrNone(obj, key) ==
    IF obj.t = "dict"
    THEN IF \E i \in 1..Len(obj.items) : obj.items[i].k = key
         THEN Ok(obj.items[CHOOSE i \in 1..Len(obj.items) : obj.items[i].k = key].v)
         ELSE Ok(JNull)
    ELSE Raise("TypeError")

\* obj[key] for a str key: a dict looks the key up (KeyError when absent), a
\* list or a str takes integer indices only, anything else is not subscriptable.
GetItemKey(obj, key) ==
    IF obj.t = "dict"
    THEN IF \E i \in 1..Len(obj.items) : obj.items[i].k = key
         THEN Ok(obj.items[CHOOSE i \in 1..Len(obj.items) : obj.items[i].k = key].v)
         ELSE Raise("KeyError")
    ELSE Raise("TypeError")

\* obj[i] for an int i >= 0: a list or a str (or bytes) indexes (IndexError past
\* the end), a dict decoded from JSON has str keys only (KeyError), anything
\* else is not subscriptable.
GetItemIndex(obj, i) ==
    CASE obj.t = "list" ->
            IF i < Len(obj.items) THEN Ok(obj.items[i + 1].v) ELSE Raise("IndexError")
      [] obj.t = "str" ->
            IF i = 0 /\ obj.s # "" THEN Ok(JStr(FirstChar(obj.s))) ELSE Raise("IndexError")
      [] obj.t = "bytes" ->
            IF i < Len(obj.b) THEN Ok(JInt(obj.b[i + 1])) ELSE Raise("IndexError")
      [] obj.t = "dict" -> Raise("KeyError")
      [] OTHER -> Raise("TypeError")

\* r[key] when r evaluated to a value, r's exception otherwise.
ThenKey(r, key) == IF r.exc = "" THEN GetItemKey(r.val, key) ELSE r

ThenIndex(r, i) == IF r.exc = "" THEN GetItemIndex(r.val, i) ELSE r

(***************************************************************************)
(* ComfyUIClient.extract_filename                                          *)
(***************************************************************************)
\* The exceptions extract_filename catches.
ExtractCaughtKeyErrorOnly == {"KeyError"}

ExtractCaught == {"KeyError", "IndexError", "TypeError"}

\* data["data"]["output"]["images"][0]["filename"], "" on a caught exception.
extract_filename(data) ==
    LET r == ThenKey(ThenIndex(ThenKey(ThenKey(GetItemKey(data, "data"),
                                               "output"), "images"), 0), "filename")
    IN  IF r.exc \in ExtractCaught THEN Ok(JStr("")) ELSE r

(***************************************************************************)
(* Frames of the websocket: a text frame (str) carries a text that         *)
(* json.loads decodes to doc, or that is no JSON document (wf = FALSE); a  *)
(* binary frame (bytes) carries bytes.                                     *)
(***************************************************************************)
TextFrame(value) == [kind |-> "text", wf |-> TRUE, doc |-> value, bytes |-> <<>>]

NotJsonFrame == [kind |-> "text", wf |-> FALSE, doc |-> JNull, bytes |-> <<>>]

BinaryFrame(bs) == [kind |-> "binary", wf |-> TRUE, doc |-> JNull, bytes |-> bs]

\* {"type": ty, "data": d}
Message(ty, d) == JDict(<<KV("type", JStr(ty)), KV("data", d)>>)

\* The prompt ids of the server's submissions.
PromptIds == {"abc", "xyz"}

\* The filenames the server's 'executed' frames carry.
Filenames == {"out_001.png", "other.png"}

ProgressDoc(value, max, pid) ==
    Message("progress", JDict(<<KV("value", JInt(value)), KV("max", JInt(max)),
                                KV("prompt_id", JStr(pid))>>))

\* An 'executed' frame whose first image has filename F.
ExecutedDoc(F, pid) ==
    Message("executed",
            JDict(<<KV("node", JStr("9")),
                    KV("output", JDict(<<KV("images",
                        JList(<<Item(JDict(<<KV("filename", JStr(F)),
                                             KV("subfolder", JStr("")),
                                             KV("type", JStr("output"))>>))>>))>>)),
                    KV("prompt_id", JStr(pid))>>))

\* An 'executed' frame with the value out at data.output.
ExecutedOutputDoc(out) ==
    Message("executed", JDict(<<KV("node", JStr("9")), KV("output", out)>>))

ExecutingDoc(node, pid) ==
    Message("executing", JDict(<<KV("node", node), KV("prompt_id", JStr(pid))>>))

\* The terminal frame of submission pid.
TerminalDoc(pid) == ExecutingDoc(JNull, pid)

StatusDoc ==
    Message("status", JDict(<<KV("status",
        JDict(<<KV("exec_info", JDict(<<KV("queue_remaining", JInt(1))>>))>>))>>))

\* Well-formed progress frames, of both submissions.
ProgressFrames ==
    {TextFrame(ProgressDoc(5, 20, "abc")), TextFrame(ProgressDoc(10, 20, "xyz"))}

\* Progress frames a progress bar cannot be drawn from: max = 0, no value/max.
MalformedProgressFrames ==
    {TextFrame(ProgressDoc(0, 0, "abc")), TextFrame(Message("progress", JDict(<<>>)))}

\* 'executed' frames whose data.output.images[0].filename resolves.
ExecutedFrames ==
    {TextFrame(ExecutedDoc("out_001.png", "abc")), TextFrame(ExecutedDoc("other.png", "xyz"))}

\* 'executed' frames whose path does not resolve: an empty image list
\* (IndexError), no output key (KeyError), a str for output (TypeError).
BrokenExecutedFrames ==
    {TextFrame(ExecutedOutputDoc(JDict(<<KV("images", JList(<<>>))>>))),
     TextFrame(Message("executed", JDict(<<KV("node", JStr("9"))>>))),
     TextFrame(ExecutedOutputDoc(JStr("text")))}

TerminalFrames == {TextFrame(TerminalDoc(p)) : p \in PromptIds}

\* 'executing' frames of a node that starts: with and without a prompt_id.
NodeExecutingFrames ==
    {TextFrame(ExecutingDoc(JStr("5"), "abc")),
     TextFrame(Message("executing", JDict(<<KV("node", JStr("5"))>>)))}

\* 'executing' frames that lack the node, or the prompt_id of a null node.
BrokenExecutingFrames ==
    {TextFrame(Message("executing", JDict(<<KV("prompt_id", JStr("abc"))>>))),
     TextFrame(Message("executing", JDict(<<KV("node", JNull)>>)))}

\* A 'status' frame and a frame of a type track_progress does not name.
OtherFrames ==
    {TextFrame(StatusDoc),
     TextFrame(Message("execution_cached", JDict(<<KV("prompt_id", JStr("abc"))>>)))}

\* Frames without a usable 'type': a dict without the key, a JSON list.
UntypedFrames ==
    {TextFrame(JDict(<<KV("data", JDict(<<>>))>>)), TextFrame(JList(<<>>))}

TextFrames ==
    ProgressFrames \cup MalformedProgressFrames \cup ExecutedFrames
        \cup BrokenExecutedFrames \cup TerminalFrames \cup NodeExecutingFrames
        \cup BrokenExecutingFrames \cup OtherFrames \cup UntypedFrames
        \cup {NotJsonFrame}

\* Preview frames: event type 1, then the format code, then the image bytes.
PreviewFrames ==
    {BinaryFrame(<<0, 0, 0, 1, 0, 0, 0, 1, 255, 216>>),
     BinaryFrame(<<0, 0, 0, 1, 0, 0, 0, 2, 137>>)}

\* Binary frames of another event type: with a payload, and of the four
\* bytes of the event type only.
UnknownBinaryFrames ==
    {BinaryFrame(<<0, 0, 0, 2, 0, 0, 0, 1, 7>>), BinaryFrame(<<1, 0, 0, 0>>)}

\* Binary frames too short for their header.
TruncatedBinaryFrames == {BinaryFrame(<<0, 0, 0, 1, 0, 0>>), BinaryFrame(<<0, 0>>)}

BinaryFrames == PreviewFrames \cup UnknownBinaryFrames \cup TruncatedBinaryFrames

Frames == TextFrames \cup BinaryFrames

(***************************************************************************)
(* Decoding                                                                *)
(***************************************************************************)
\* json.loads(message) of a text frame.
json_loads(frame) == IF frame.wf THEN Ok(frame.doc) ELSE Raise("JSONDecodeError")

\* bs[from:to] of Python, from and to counted from 0 and cut to the length.
Slice(bs, from, to) ==
    SubSeq(bs, from + 1, IF to < Len(bs) THEN to ELSE Len(bs))

\* The unsigned integer of four bytes, least significant first ("<I").
LittleEndian(bs) == bs[4] * 16777216 + bs[3] * 65536 + bs[2] * 256 + bs[1]

\* The unsigned integer of four bytes, most significant first (">I").
BigEndian(bs) == bs[1] * 16777216 + bs[2] * 65536 + bs[3] * 256 + bs[4]

\* struct.unpack(">I", bs)[0]: struct.error unless bs holds exactly 4 bytes.
unpack_I(bs) == IF Len(bs) = 4 THEN Ok(JInt(BigEndian(bs))) ELSE Raise("struct.error")

\* BinaryEventTypes.PREVIEW_IMAGE
PREVIEW_IMAGE == 1

\* The format code of JPEG previews.
JPEG_FORMAT == 1

\* "JPEG" if image_format == 1 else "PNG"
format_name(image_format) == IF image_format = JPEG_FORMAT THEN "JPEG" ELSE "PNG"

\* message[8:]
image_data(message) == Slice(message, 8, Len(message))

\* The event a preview frame is passed to the callback as.
PreviewEvent(fmt, bs) ==
    JDict(<<KV("type", JStr("preview_image")),
            KV("data", JDict(<<KV("format", JStr(fmt)), KV("image_data", JBytes(bs))>>))>>)

decode_binary_no_preview(message) ==
    LET event_type == unpack_I(Slice(message, 0, 4))
        image_format == unpack_I(Slice(message, 4, 8))
    IN  IF event_type.exc # "" THEN event_type
        ELSE IF event_type.val.n # PREVIEW_IMAGE THEN Ok(JNull)
        ELSE IF image_format.exc # "" THEN image_format
        ELSE Ok(JNull)

\* What a binary frame decodes to: the exception raised, and the event for
\* the callback (JNull when the frame is of another event type).
decode_binary(message) ==
    LET event_type == unpack_I(Slice(message, 0, 4))
        image_format == unpack_I(Slice(message, 4, 8))
    IN  IF event_type.exc # "" THEN event_type
        ELSE IF event_type.val.n # PREVIEW_IMAGE THEN Ok(JNull)
        ELSE IF image_format.exc # "" THEN image_format
        ELSE Ok(PreviewEvent(format_name(image_format.val.n), image_data(message)))

(***************************************************************************)
(* The observers track_progress is called with: none, the progress-bar     *)
(* callback of GenerateImageCommand.track_progress, or any other coroutine *)
(* function ("observer"), which may await and may raise on any event.      *)
(***************************************************************************)
Callbacks == {"None", "progress_callback", "observer"}

\* The number x / y is computed from: TypeError unless both are numbers,
\* ZeroDivisionError when y is 0.
Divide(x, y) ==
    IF x.t # "int" \/ y.t # "int" THEN "TypeError"
    ELSE IF y.n = 0 THEN "ZeroDivisionError"
    ELSE ""

\* progress_callback(data) up to its await of interaction.edit_original_response:
\* the exception raised before it, and whether the await is reached.
progress_callback(data) ==
    LET ty == GetItemKey(data, "type")
        progress == GetItemKey(data, "data")
        value == ThenKey(progress, "value")
        max_value == ThenKey(progress, "max")
    IN  IF ty.exc # "" THEN [exc |-> ty.exc, awaits |-> FALSE]
        ELSE IF ty.val # JStr("progress") THEN [exc |-> "", awaits |-> FALSE]
        ELSE IF value.exc # "" THEN [exc |-> value.exc, awaits |-> FALSE]
        ELSE IF max_value.exc # "" THEN [exc |-> max_value.exc, awaits |-> FALSE]
        ELSE IF Divide(value.val, max_value.val) # ""
             THEN [exc |-> Divide(value.val, max_value.val), awaits |-> FALSE]
        ELSE [exc |-> "", awaits |-> TRUE]

\* callback(data) up to its first await.
CallCallback(cb, data) ==
    IF cb = "progress_callback" THEN progress_callback(data)
    ELSE [exc |-> "", awaits |-> TRUE]

\* The exception a callback's await ends with when it fails.
CallbackError(cb) == IF cb = "progress_callback" THEN "HTTPException" ELSE "ObserverError"

(***************************************************************************)
(* ComfyUIClient.track_progress: what one frame does to the loop.  An      *)
(* outcome names where the loop goes (pc: "recv" for the next frame,       *)
(* "done" after the break, "failed" after an exception), the filename      *)
(* recorded and the exception.                                             *)
(***************************************************************************)
Continue(fname) == [pc |-> "recv", image_filename |-> fname, error |-> ""]

Done(fname) == [pc |-> "done", image_filename |-> fname, error |-> ""]

OnExceptionContinue(exc, fname) == Continue(fname)

\* except Exception as e: ... raise
OnException(exc, fname) == [pc |-> "failed", image_filename |-> fname, error |-> exc]

is_complete_any_prompt(node, pid, tracked) == node = JNull

is_complete_never(node, pid, tracked) == FALSE

\* data["data"]["node"] is None and data["data"]["prompt_id"] == prompt_id,
\* once both were read.
is_complete(node, pid, tracked) == node = JNull /\ pid = JStr(tracked)

\* The 'executing' branch: node is read first, prompt_id only of a null node.
on_executing(data, tracked, fname) ==
    LET node == ThenKey(GetItemKey(data, "data"), "node")
        pid == ThenKey(GetItemKey(data, "data"), "prompt_id")
    IN  IF node.exc # "" THEN OnException(node.exc, fname)
        ELSE IF node.val # JNull THEN Continue(fname)
        ELSE IF pid.exc # "" THEN OnException(pid.exc, fname)
        ELSE IF is_complete(node.val, pid.val, tracked) THEN Done(fname)
        ELSE Continue(fname)

on_executed_keep_first(data, fname) ==
    IF fname # JStr("") THEN Continue(fname)
    ELSE Continue(extract_filename(data).val)

on_executed_break(data, fname) == Done(extract_filename(data).val)

\* The 'executed' branch: image_filename = self.extract_filename(data)
on_executed(data, fname) ==
    LET r == extract_filename(data)
    IN  IF r.exc # "" THEN OnException(r.exc, fname) ELSE Continue(r.val)

\* The if/elif chain on data["type"], after the callback returned.
dispatch(data, tracked, fname) ==
    LET ty == GetItemKey(data, "type")
    IN  IF ty.exc # "" THEN OnException(ty.exc, fname)
        ELSE IF ty.val = JStr("progress") THEN Continue(fname)
        ELSE IF ty.val = JStr("executed") THEN on_executed(data, fname)
        ELSE IF ty.val = JStr("executing") THEN on_executing(data, tracked, fname)
        ELSE Continue(fname)

forward_own_prompt(fwd, cb, event) ==
    LET pid == ThenKey(GetItemKey(event, "data"), "prompt_id")
    IN  IF cb # "None" /\ (pid.exc # "" \/ pid.val = JStr(prompt_id))
        THEN Append(fwd, event) ELSE fwd

\* if callback: await callback(event)
forward(fwd, cb, event) == IF cb # "None" THEN Append(fwd, event) ELSE fwd

(***************************************************************************)
(* The state machine                                                       *)
(***************************************************************************)
NotReturned == [set |-> FALSE, val |-> JNull]

\* The server address the client is constructed with.
Server == "127.0.0.1"

\* The values uuid.uuid4() gives self.client_id.
ClientIds == {"c-1", "c-2"}

\* f"ws://{self.server_address}/ws?clientId={self.client_id}"
WsUrl(server, id) == [scheme |-> "ws", server |-> server, path |-> "/ws", clientId |-> id]

\* ComfyUIClient.__init__ with client_id id, and no call made yet.
InitClient(id) ==
    /\ websocket = "None"
    /\ pc = "idle"
    /\ prompt_id = ""
    /\ callback = "None"
    /\ image_filename = JStr("")
    /\ received = <<>>
    /\ forwarded = <<>>
    /\ error = ""
    /\ returned = NotReturned
    /\ client_id = id
    /\ ws_url = WsUrl(Server, id)
    /\ http_client = "open"
    /\ conn = "none"
    /\ handshake = <<>>
    /\ opened = <<>>
    /\ http_log = <<>>
    /\ close_pc = "idle"
    /\ closes = 0
    /\ ws_closes = 0
    /\ api_error = ""

\* The gen_image requests made.
MaxGenerations == 2

Generations == 1..MaxGenerations

\* interaction.user.id of the users.
UserIds == {"alice", "bob"}

\* A request that was not made yet: no user, no lock, no client (client = None),
\* no response, no frame read from a connection (recvs), nothing tracked or
\* fetched.
NoGeneration ==
    [user |-> "", workflow_name |-> "", pc |-> "new", lock |-> 0, client |-> 0, client_id |-> "",
     websocket |-> "None", status |-> 0, response |-> JNull, prompt_id |-> "",
     tracked |-> <<>>, image_filename |-> JNull, fetched |-> <<>>,
     recvs |-> 0, closed |-> 0, error |-> "", result |-> ""]

\* The bot before any gen_image request: bot._generation_locks = {},
\* command._running = False.
NoGenerations ==
    /\ generations = [g \in Generations |-> NoGeneration]
    /\ generation_locks = [u \in UserIds |-> 0]
    /\ locks_made = 0
    /\ locked = {}
    /\ running = FALSE
    /\ clients_made = 0
    /\ submitted = 0

\* A descriptor entry (NodeTemplate): the node's class_type, the path of the
\* value in the node, the substring of the node's title (JNull: None).
NodeTemplate(node_type, path, match_meta) ==
    [node_type |-> node_type, path |-> path, match_meta |-> match_meta]

\* A descriptor (WorkflowTemplateConfig): the model entry and the prompt
\* entries by name, in the order of the dict.
WorkflowTemplateConfig(model, prompts) == [model |-> model, prompts |-> prompts]

Slot(name, entry) == [name |-> name, slot |-> entry]

\* No WorkflowTemplate was constructed and no call made.
NoTemplate ==
    /\ template = [state |-> "none", workflow_data |-> JNull,
                   template_config |-> WorkflowTemplateConfig(NodeTemplate("", <<>>, JNull), <<>>),
                   exc |-> "", missing |-> ""]
    /\ template_call = [op |-> "none", name |-> "", node |-> JNull, path |-> <<>>,
                        value |-> JNull, prompts |-> <<>>, before |-> JNull,
                        after |-> JNull, exc |-> "", val |-> JNull]

Init == InitClient("c-1") /\ NoGenerations /\ NoTemplate

\* self.websocket.recv at the top of the loop: AttributeError once close() has
\* set self.websocket to None.
NextRecv(o) ==
    IF o.pc = "recv" /\ websocket = "None"
    THEN [pc |-> "failed", image_filename |-> o.image_filename, error |-> "AttributeError"]
    ELSE o

\* The loop goes where outcome o says; the break is followed by
\* return image_filename.
Goto(o) ==
    /\ pc' = NextRecv(o).pc
    /\ image_filename' = NextRecv(o).image_filename
    /\ error' = NextRecv(o).error
    /\ returned' = IF o.pc = "done" THEN [set |-> TRUE, val |-> o.image_filename]
                   ELSE returned

\* The frame the server sends first on a new connection: its status.
HandshakeFrames == {TextFrame(StatusDoc)}

read_nothing(initial_msg) == <<>>

\* initial_msg = await self.websocket.recv(): one frame is read.
read_initial(initial_msg) == <<initial_msg>>

\* connect(): the websocket is opened at self.ws_url and the first frame,
\* whatever it is, is read and dropped.
Connect(initial_msg) ==
    /\ pc = "idle"
    /\ websocket = "None"
    /\ opened = <<>>
    /\ close_pc = "idle"
    /\ opened' = Append(opened, ws_url)
    /\ websocket' = "open"
    /\ conn' = "open"
    /\ handshake' = read_initial(initial_msg)
    /\ api_error' = ""
    /\ UNCHANGED <<pc, prompt_id, callback, image_filename, received, forwarded,
                   error, returned>>
    /\ UNCHANGED <<client_id, ws_url, http_client, http_log, close_pc, closes, ws_closes>>
    /\ UNCHANGED <<flowVars, templateVars>>

TrackProgressUnguarded(p, cb) ==
    /\ pc = "idle"
    /\ prompt_id' = p
    /\ callback' = cb
    /\ Goto(Continue(JStr("")))
    /\ UNCHANGED <<websocket, received, forwarded>>
    /\ UNCHANGED clientVars
    /\ UNCHANGED <<flowVars, templateVars>>

\* track_progress(p, cb) is called: RuntimeError without a websocket.
TrackProgress(p, cb) ==
    /\ pc = "idle"
    /\ prompt_id' = p
    /\ callback' = cb
    /\ IF websocket = "None"
       THEN Goto(OnException("RuntimeError", image_filename))
       ELSE Goto(Continue(JStr("")))
    /\ UNCHANGED <<websocket, received, forwarded>>
    /\ UNCHANGED clientVars
    /\ UNCHANGED <<flowVars, templateVars>>

\* websocket.recv() raises: the connection was closed or failed.
RecvFails ==
    /\ pc = "recv"
    /\ Goto(OnException("ConnectionClosed", image_filename))
    /\ UNCHANGED <<websocket, prompt_id, callback, received, forwarded>>
    /\ UNCHANGED clientVars
    /\ UNCHANGED <<flowVars, templateVars>>

\* websocket.recv() returns a str: it is decoded, passed to the callback and,
\* unless the callback awaits, dispatched on.
RecvText(message) ==
    /\ pc = "recv"
    /\ conn \in {"open", "closing"}
    /\ Len(received) < MaxFrames
    /\ message.kind = "text"
    /\ received' = Append(received, message)
    /\ LET data == json_loads(message)
           called == CallCallback(callback, data.val)
       IN  IF data.exc # ""
           THEN /\ Goto(OnException(data.exc, image_filename))
                /\ UNCHANGED forwarded
           ELSE /\ forwarded' = forward(forwarded, callback, data.val)
                /\ IF callback = "None"
                   THEN Goto(dispatch(data.val, prompt_id, image_filename))
                   ELSE IF called.exc # ""
                   THEN Goto(OnException(called.exc, image_filename))
                   ELSE IF called.awaits
                   THEN /\ pc' = "callback"
                        /\ UNCHANGED <<image_filename, error, returned>>
                   ELSE Goto(dispatch(data.val, prompt_id, image_filename))
    /\ UNCHANGED <<websocket, prompt_id, callback>>
    /\ UNCHANGED clientVars
    /\ UNCHANGED <<flowVars, templateVars>>

\* websocket.recv() returns bytes: a preview image is decoded and passed to
\* the callback, a frame of another event type is dropped.
RecvBinary(message) ==
    /\ pc = "recv"
    /\ conn \in {"open", "closing"}
    /\ Len(received) < MaxFrames
    /\ message.kind = "binary"
    /\ received' = Append(received, message)
    /\ LET event == decode_binary(message.bytes)
           called == CallCallback(callback, event.val)
       IN  IF event.exc # ""
           THEN /\ Goto(OnException(event.exc, image_filename))
                /\ UNCHANGED forwarded
           ELSE IF event.val = JNull
           THEN /\ Goto(Continue(image_filename))
                /\ UNCHANGED forwarded
           ELSE /\ forwarded' = forward(forwarded, callback, event.val)
                /\ IF callback = "None"
                   THEN Goto(Continue(image_filename))
                   ELSE IF called.exc # ""
                   THEN Goto(OnException(called.exc, image_filename))
                   ELSE IF called.awaits
                   THEN /\ pc' = "callback"
                        /\ UNCHANGED <<image_filename, error, returned>>
                   ELSE Goto(Continue(image_filename))
    /\ UNCHANGED <<websocket, prompt_id, callback>>
    /\ UNCHANGED clientVars
    /\ UNCHANGED <<flowVars, templateVars>>

\* The callback's await ends and it returns: a text frame is dispatched on,
\* a preview needs nothing more.
CallbackReturns ==
    /\ pc = "callback"
    /\ LET message == received[Len(received)]
       IN  IF message.kind = "text"
           THEN Goto(dispatch(message.doc, prompt_id, image_filename))
           ELSE Goto(Continue(image_filename))
    /\ UNCHANGED <<websocket, prompt_id, callback, received, forwarded>>
    /\ UNCHANGED clientVars
    /\ UNCHANGED <<flowVars, templateVars>>

\* The callback raises at its await.
CallbackRaises ==
    /\ pc = "callback"
    /\ Goto(OnException(CallbackError(callback), image_filename))
    /\ UNCHANGED <<websocket, prompt_id, callback, received, forwarded>>
    /\ UNCHANGED clientVars
    /\ UNCHANGED <<flowVars, templateVars>>

Next ==
    \/ \E initial_msg \in HandshakeFrames : Connect(initial_msg)
    \/ \E p \in PromptIds, cb \in Callbacks : TrackProgress(p, cb)
    \/ RecvFails
    \/ \E message \in TextFrames : RecvText(message)
    \/ \E message \in BinaryFrames : RecvBinary(message)
    \/ CallbackReturns
    \/ CallbackRaises

Spec == Init /\ [][Next]_vars

(***************************************************************************)
(* The client's other calls: queue_prompt, get_image and close, and        *)
(* connect failing.  The HTTP server's reply to a request is an input.     *)
(***************************************************************************)
\* Calls of queue_prompt and get_image one client is given.
MaxRequests == 2

\* Calls of close() one client is given.
MaxCloses == 2

\* A reply of the HTTP server: its status, its JSON document, its content.
Reply(status, json, content) == [status |-> status, json |-> json, content |-> content]

\* The replies to POST /prompt: the prompt was queued under a prompt_id; a
\* success without a prompt_id; the prompt was refused; the server failed.
SubmitReplies ==
    {Reply(200, JDict(<<KV("prompt_id", JStr(p))>>), <<>>) : p \in PromptIds}
        \cup {Reply(200, JDict(<<KV("number", JInt(1))>>), <<>>),
              Reply(400, JDict(<<KV("error", JStr("invalid prompt"))>>), <<>>),
              Reply(500, JNull, <<>>)}

\* The replies to GET /view: the image, or no such file.
ImageReplies == {Reply(200, JNull, <<137, 80>>), Reply(404, JNull, <<>>)}

\* The workflows submitted.
Prompts == {"workflow"}

\* An HTTP request: POST /prompt with json {"prompt", "client_id"}, or
\* GET /view with params {"filename", "subfolder", "type"}.
PostPrompt(prompt, id) ==
    [method |-> "POST", path |-> "/prompt", prompt |-> prompt, client_id |-> id,
     filename |-> "", subfolder |-> "", type |-> ""]

GetView(filename, subfolder, folder_type) ==
    [method |-> "GET", path |-> "/view", prompt |-> "", client_id |-> "",
     filename |-> filename, subfolder |-> subfolder, type |-> folder_type]

raise_for_status_never(reply) == ""

\* response.raise_for_status()
raise_for_status(reply) == IF reply.status >= 400 THEN "HTTPStatusError" ELSE ""

\* self.http_client.post / .get: RuntimeError once the client is closed;
\* otherwise the request is sent and the reply's status checked.
http_call(http, request, reply, value) ==
    IF http = "closed" THEN [exc |-> "RuntimeError", val |-> JNull, sent |-> <<>>]
    ELSE IF raise_for_status(reply) # ""
    THEN [exc |-> raise_for_status(reply), val |-> JNull, sent |-> <<request>>]
    ELSE [exc |-> "", val |-> value, sent |-> <<request>>]

body_other_client(prompt, id) == PostPrompt(prompt, CHOOSE other \in ClientIds : other # id)

\* data = {"prompt": prompt, "client_id": self.client_id}
body(prompt, id) == PostPrompt(prompt, id)

\* queue_prompt(prompt): the reply's JSON document is returned.
queue_prompt(http, id, prompt, reply) ==
    http_call(http, body(prompt, id), reply, reply.json)

\* get_image(filename, subfolder, folder_type): the reply's content is returned.
get_image(http, filename, subfolder, folder_type, reply) ==
    http_call(http, GetView(filename, subfolder, folder_type), reply, JBytes(reply.content))

\* No track_progress call and no close() call is in progress: the caller
\* can make its next call.
CallerFree == pc \in {"idle", "done", "failed"} /\ close_pc = "idle"

\* websockets.connect(self.ws_url) raises: self.websocket stays None.
ConnectFails ==
    /\ pc = "idle"
    /\ websocket = "None"
    /\ opened = <<>>
    /\ close_pc = "idle"
    /\ opened' = Append(opened, ws_url)
    /\ api_error' = "ConnectionRefusedError"
    /\ UNCHANGED trackVars
    /\ UNCHANGED <<client_id, ws_url, http_client, conn, handshake, http_log, close_pc,
                   closes, ws_closes>>
    /\ UNCHANGED <<flowVars, templateVars>>

QueuePrompt(prompt, reply) ==
    /\ CallerFree
    /\ Len(http_log) < MaxRequests
    /\ LET r == queue_prompt(http_client, client_id, prompt, reply)
       IN  /\ http_log' = http_log \o r.sent
           /\ api_error' = r.exc
    /\ UNCHANGED trackVars
    /\ UNCHANGED <<client_id, ws_url, http_client, conn, handshake, opened, close_pc,
                   closes, ws_closes>>
    /\ UNCHANGED <<flowVars, templateVars>>

GetImage(filename, reply) ==
    /\ CallerFree
    /\ Len(http_log) < MaxRequests
    /\ LET r == get_image(http_client, filename, "", "output", reply)
       IN  /\ http_log' = http_log \o r.sent
           /\ api_error' = r.exc
    /\ UNCHANGED trackVars
    /\ UNCHANGED <<client_id, ws_url, http_client, conn, handshake, opened, close_pc,
                   closes, ws_closes>>
    /\ UNCHANGED <<flowVars, templateVars>>

keep_reference(ws) == ws

\* self.websocket = None
clear_reference(ws) == "None"

\* close() is called: if self.websocket, websocket.close() is awaited, and
\* frames in flight can still arrive.
CloseBegin ==
    /\ close_pc = "idle"
    /\ closes < MaxCloses
    /\ closes' = closes + 1
    /\ api_error' = ""
    /\ IF websocket # "None"
       THEN /\ ws_closes' = ws_closes + 1
            /\ conn' = IF conn = "open" THEN "closing" ELSE conn
            /\ close_pc' = "ws_close"
       ELSE /\ close_pc' = "aclose"
            /\ UNCHANGED <<ws_closes, conn>>
    /\ UNCHANGED trackVars
    /\ UNCHANGED <<client_id, ws_url, http_client, handshake, opened, http_log>>
    /\ UNCHANGED <<flowVars, templateVars>>

\* websocket.close() returns: the connection is closed, and self.websocket
\* is set to None.
CloseWebsocket ==
    /\ close_pc = "ws_close"
    /\ conn' = "closed"
    /\ websocket' = clear_reference(websocket)
    /\ close_pc' = "aclose"
    /\ UNCHANGED <<pc, prompt_id, callback, image_filename, received, forwarded,
                   error, returned>>
    /\ UNCHANGED <<client_id, ws_url, http_client, handshake, opened, http_log, closes,
                   ws_closes, api_error>>
    /\ UNCHANGED <<flowVars, templateVars>>

\* http_client.aclose() returns, and close() with it.
CloseHttp ==
    /\ close_pc = "aclose"
    /\ http_client' = "closed"
    /\ close_pc' = "idle"
    /\ UNCHANGED trackVars
    /\ UNCHANGED <<client_id, ws_url, conn, handshake, opened, http_log, closes,
                   ws_closes, api_error>>
    /\ UNCHANGED <<flowVars, templateVars>>

\* The frames of ClientSpec: the events of one submission, and what the server
\* may send first.
ClientTextFrames ==
    {TextFrame(ProgressDoc(5, 20, "abc")),
     TextFrame(ExecutedDoc("out_001.png", "abc")),
     TextFrame(TerminalDoc("abc"))}

\* The callbacks of ClientSpec.
ClientCallbacks == {"None", "observer"}

ClientHandshakes == {TextFrame(StatusDoc), TextFrame(TerminalDoc("abc"))}

ClientInit == (\E id \in ClientIds : InitClient(id)) /\ NoGenerations /\ NoTemplate

ClientNext ==
    \/ \E initial_msg \in ClientHandshakes : Connect(initial_msg)
    \/ ConnectFails
    \/ \E prompt \in Prompts, reply \in SubmitReplies : QueuePrompt(prompt, reply)
    \/ \E reply \in ImageReplies : GetImage("out_001.png", reply)
    \/ \E cb \in ClientCallbacks : TrackProgress("abc", cb)
    \/ RecvFails
    \/ \E message \in ClientTextFrames : RecvText(message)
    \/ CallbackReturns
    \/ CallbackRaises
    \/ CloseBegin
    \/ CloseWebsocket
    \/ CloseHttp

ClientSpec == ClientInit /\ [][ClientNext]_vars

(***************************************************************************)
(* WorkflowJson (src/src/discord_comfyui/workflow_json.py): the template   *)
(* of a workflow name, loaded when a GenerationRequest is built, and       *)
(* rendered by get_workflow_api_json.                                      *)
(***************************************************************************)
\* The stems of the *.json files of the templates directory, and the
\* workflow names requests are made with.
TemplateFiles == {"default"}

WorkflowNames == {"default", "missing"}

\* WorkflowTemplate(...) called with nargs arguments: __init__ takes
\* workflow_data and template_config.
call_init(nargs) == IF nargs = 2 THEN "" ELSE "TypeError"

load_any_name(name) == call_init(1)

\* WorkflowJson._load_workflow: ValueError when no file has the name as its
\* stem, else WorkflowTemplate(f"{self.workflow_name}.json").
load_workflow(name) == IF name \notin TemplateFiles THEN "ValueError" ELSE call_init(1)

\* GenerationRequest(workflow_name=name, ...).get_workflow_api_json(): the
\* template is loaded, then self.template.render(context) is called, a
\* method WorkflowTemplate does not have.
render_workflow(name, context) ==
    IF load_workflow(name) # "" THEN Raise(load_workflow(name)) ELSE Raise("AttributeError")

(***************************************************************************)
(* The gen_image command (GenerateImageCommand.register.genimg): requests  *)
(* of several users run as concurrent coroutines; one step of a request    *)
(* is the code between two of its awaits.  A request's position (pc) is    *)
(* the await it is suspended at.                                           *)
(***************************************************************************)

\* The prompts users give: none, or some text.
UserPrompts == {"", "a cat"}

\* The n-th client's uuid4 and the n-th prompt_id the server issues: fresh.
FlowClientId(n) == <<"c-1", "c-2", "c-3", "c-4">>[n]

IssuedId(n) == <<"abc", "xyz", "uvw", "rst">>[n]

\* What GenerationRequest(workflow_name=name, ...) and
\* get_workflow_api_json() end with: they return, or raise (no such
\* workflow; the template cannot be built or rendered).  WorkflowJson as it
\* stands always raises (_load_workflow constructs WorkflowTemplate without
\* its template_config, and WorkflowTemplate has no render); for a workflow
\* that has a template file the command is modelled for both outcomes of
\* its builder.
BuildOutcomes(name) ==
    IF load_workflow(name) = "ValueError" THEN {"ValueError"}
    ELSE {"built", load_workflow(name)}

RenderOutcomes == {"rendered", "AttributeError"}

\* The replies to the n-th POST /prompt: queued under a fresh prompt_id, a
\* success without a prompt_id, the prompt was refused.
FlowSubmitReplies(n) ==
    {Reply(200, JDict(<<KV("prompt_id", JStr(IssuedId(n)))>>), <<>>),
     Reply(200, JDict(<<KV("number", JInt(1))>>), <<>>),
     Reply(400, JDict(<<KV("error", JStr("invalid prompt"))>>), <<>>)}

\* What the server sends on the connection of a client that submitted p,
\* until the connection ends: the whole execution; an execution without
\* output; a progress frame with max = 0 first; a connection lost early.
Streams(p) ==
    {<<TextFrame(ProgressDoc(5, 20, p)), TextFrame(ExecutedDoc("out_001.png", p)),
       TextFrame(TerminalDoc(p))>>,
     <<TextFrame(TerminalDoc(p))>>,
     <<TextFrame(ProgressDoc(0, 0, p)), TextFrame(ExecutedDoc("out_001.png", p)),
       TextFrame(TerminalDoc(p))>>,
     <<TextFrame(ProgressDoc(5, 20, p))>>}

\* One iteration of the loop of ComfyUIClient.track_progress on a frame, the
\* callback's await included: it returns when edits, raises otherwise.
handle_frame(message, tracked, cb, fname, edits) ==
    LET data == json_loads(message)
        event == decode_binary(message.bytes)
        passed == IF message.kind = "text" THEN data ELSE event
        called == CallCallback(cb, passed.val)
        after == IF message.kind = "text" THEN dispatch(passed.val, tracked, fname)
                 ELSE Continue(fname)
    IN  IF passed.exc # "" THEN OnException(passed.exc, fname)
        ELSE IF message.kind = "binary" /\ passed.val = JNull THEN Continue(fname)
        ELSE IF cb = "None" THEN after
        ELSE IF called.exc # "" THEN OnException(called.exc, fname)
        ELSE IF called.awaits /\ ~edits THEN OnException(CallbackError(cb), fname)
        ELSE after

\* The loop of track_progress from the i-th frame on; websocket.recv()
\* raises ConnectionClosed when the connection ends.
RECURSIVE read_frames(_, _, _, _, _, _)
read_frames(frames, i, tracked, cb, fname, edits) ==
    IF i > Len(frames) THEN OnException("ConnectionClosed", fname)
    ELSE LET o == handle_frame(frames[i], tracked, cb, fname, edits)
         IN  IF o.pc = "recv"
             THEN read_frames(frames, i + 1, tracked, cb, o.image_filename, edits)
             ELSE o

\* The number of frames of the connection that recv() has returned when the
\* loop of track_progress, entered before the i-th frame, ends.
RECURSIVE frames_read(_, _, _, _, _, _)
frames_read(frames, i, tracked, cb, fname, edits) ==
    IF i > Len(frames) THEN Len(frames)
    ELSE LET o == handle_frame(frames[i], tracked, cb, fname, edits)
         IN  IF o.pc = "recv"
             THEN frames_read(frames, i + 1, tracked, cb, o.image_filename, edits)
             ELSE i

get_user_lock_fresh(locks, made, user_id) == made + 1

\* bot.get_user_lock(user_id): the user's lock, created on first use.
get_user_lock(locks, made, user_id) ==
    IF locks[user_id] = 0 THEN made + 1 ELSE locks[user_id]

shared_client(made) == 1

\* ComfyUIClient(host): a new client.
new_client(made) == made + 1

tracked_client_id(id, response_prompt_id) == id

\* generation_request.prompt_id, as set by set_prompt_id(response["prompt_id"]).
tracked_id(id, response_prompt_id) == response_prompt_id

\* The request r becomes rec.
Becomes(r, rec) == generations' = [generations EXCEPT ![r] = rec]

EnterUnchecked(r, rec, lock) ==
    /\ locked' = locked \cup {lock}
    /\ Becomes(r, [rec EXCEPT !.pc = "announce"])
    /\ running' = TRUE

\* The 'async with' block is entered: one generation at a time.
Enter(r, rec, lock) ==
    /\ locked' = locked \cup {lock}
    /\ IF running
       THEN /\ Becomes(r, [rec EXCEPT !.pc = "refuse"])
            /\ UNCHANGED running
       ELSE /\ Becomes(r, [rec EXCEPT !.pc = "announce"])
            /\ running' = TRUE

\* The 'async with' block is left.
Leave(r) == locked' = locked \ {generations[r].lock}

\* A user invokes /gen_image: permissions and prompt are checked, the user's
\* lock is taken, or waited for.
Genimg(r, u, passed, prompt, workflow_name) ==
    /\ generations[r].pc = "new"
    /\ \A h \in Generations : h < r => generations[h].pc # "new"
    /\ LET rec == [generations[r] EXCEPT !.user = u, !.workflow_name = workflow_name]
           lock == get_user_lock(generation_locks, locks_made, u)
       IN  IF ~passed \/ prompt = ""
           THEN /\ Becomes(r, [rec EXCEPT !.pc = "end",
                                          !.result = IF passed THEN "prompt required"
                                                     ELSE "denied"])
                /\ UNCHANGED <<generation_locks, locks_made, locked, running>>
           ELSE /\ generation_locks' = [generation_locks EXCEPT ![u] = lock]
                /\ locks_made' = IF lock > locks_made THEN lock ELSE locks_made
                /\ IF lock \in locked
                   THEN /\ Becomes(r, [rec EXCEPT !.pc = "lock", !.lock = lock])
                        /\ UNCHANGED <<locked, running>>
                   ELSE Enter(r, [rec EXCEPT !.lock = lock], lock)
    /\ UNCHANGED <<clients_made, submitted>>
    /\ UNCHANGED <<trackVars, clientVars, templateVars>>

\* The lock a request waits for is released to it.
AcquireLock(r) ==
    /\ generations[r].pc = "lock"
    /\ generations[r].lock \notin locked
    /\ Enter(r, generations[r], generations[r].lock)
    /\ UNCHANGED <<generation_locks, locks_made, clients_made, submitted>>
    /\ UNCHANGED <<trackVars, clientVars, templateVars>>

\* "Another image generation is already in progress" was sent: return.
Refuse(r) ==
    /\ generations[r].pc = "refuse"
    /\ Becomes(r, [generations[r] EXCEPT !.pc = "end", !.result = "refused"])
    /\ Leave(r)
    /\ UNCHANGED <<generation_locks, locks_made, running, clients_made, submitted>>
    /\ UNCHANGED <<trackVars, clientVars, templateVars>>

\* The initial embed was sent, or sending it raised (outside the try); then
\* the request is built, the client constructed and connect() awaited.
Announce(r, sent, built) ==
    /\ generations[r].pc = "announce"
    /\ LET rec == generations[r]
           client == new_client(clients_made)
       IN  IF ~sent
           THEN /\ Becomes(r, [rec EXCEPT !.pc = "end", !.error = "HTTPException",
                                          !.result = "crashed"])
                /\ Leave(r)
                /\ UNCHANGED clients_made
           ELSE IF built # "built"
           THEN /\ Becomes(r, [rec EXCEPT !.pc = "except", !.error = built])
                /\ UNCHANGED <<locked, clients_made>>
           ELSE /\ Becomes(r, [rec EXCEPT !.pc = "connect", !.client = client,
                                          !.client_id = FlowClientId(client)])
                /\ clients_made' = clients_made + 1
                /\ UNCHANGED locked
    /\ UNCHANGED <<generation_locks, locks_made, running, submitted>>
    /\ UNCHANGED <<trackVars, clientVars, templateVars>>

\* connect() returns, having read the frame the server sends first, or
\* raises; the workflow is rendered and queue_prompt awaited.
ConnectEnds(r, connected, rendered) ==
    /\ generations[r].pc = "connect"
    /\ LET rec == generations[r]
           initial == read_initial(TextFrame(StatusDoc))
       IN  IF ~connected
           THEN Becomes(r, [rec EXCEPT !.pc = "except", !.error = "OSError"])
           ELSE IF rendered # "rendered"
           THEN Becomes(r, [rec EXCEPT !.pc = "except", !.websocket = "open",
                                       !.recvs = Len(initial), !.error = rendered])
           ELSE Becomes(r, [rec EXCEPT !.pc = "submit", !.websocket = "open",
                                       !.recvs = Len(initial)])
    /\ UNCHANGED <<generation_locks, locks_made, locked, running, clients_made, submitted>>
    /\ UNCHANGED <<trackVars, clientVars, templateVars>>

\* queue_prompt returns the server's response or raises; the prompt_id of
\* the response is saved and track_progress awaited with it.
Submit(r, reply) ==
    /\ generations[r].pc = "submit"
    /\ submitted' = submitted + 1
    /\ LET rec == [generations[r] EXCEPT !.status = reply.status]
           out == queue_prompt("open", rec.client_id, "workflow", reply)
           id == GetItemKey(out.val, "prompt_id")
       IN  IF out.exc # ""
           THEN Becomes(r, [rec EXCEPT !.pc = "except", !.error = out.exc])
           ELSE IF id.exc # ""
           THEN Becomes(r, [rec EXCEPT !.pc = "except", !.response = out.val,
                                       !.error = id.exc])
           ELSE Becomes(r, [rec EXCEPT !.pc = "track", !.response = out.val,
                                       !.prompt_id = id.val.s,
                                       !.tracked = <<tracked_id(rec.client_id, id.val.s)>>])
    /\ UNCHANGED <<generation_locks, locks_made, locked, running, clients_made>>
    /\ UNCHANGED <<trackVars, clientVars, templateVars>>

\* track_progress reads the connection from the first frame that was not
\* read yet, then returns the filename or raises; get_image is awaited with
\* the filename.  The connection carries the server's first frame, then the
\* stream of the submission.
TrackEnds(r, stream, edits) ==
    /\ generations[r].pc = "track"
    /\ LET rec == generations[r]
           frames == <<TextFrame(StatusDoc)>> \o stream
           o == read_frames(frames, rec.recvs + 1, rec.tracked[1], "progress_callback",
                            JStr(""), edits)
           n == frames_read(frames, rec.recvs + 1, rec.tracked[1], "progress_callback",
                            JStr(""), edits)
       IN  IF o.pc = "done"
           THEN Becomes(r, [rec EXCEPT !.pc = "fetch", !.recvs = n,
                                       !.image_filename = o.image_filename])
           ELSE Becomes(r, [rec EXCEPT !.pc = "except", !.recvs = n, !.error = o.error])
    /\ UNCHANGED <<generation_locks, locks_made, locked, running, clients_made, submitted>>
    /\ UNCHANGED <<trackVars, clientVars, templateVars>>

\* get_image(filename=image_filename, folder_type="output") returns the
\* image or raises; the reply is edited.
Fetch(r, reply) ==
    /\ generations[r].pc = "fetch"
    /\ LET rec == generations[r]
           out == get_image("open", rec.image_filename.s, "", "output", reply)
       IN  IF out.exc # ""
           THEN Becomes(r, [rec EXCEPT !.pc = "except", !.fetched = out.sent,
                                       !.error = out.exc])
           ELSE Becomes(r, [rec EXCEPT !.pc = "reply", !.fetched = out.sent])
    /\ UNCHANGED <<generation_locks, locks_made, locked, running, clients_made, submitted>>
    /\ UNCHANGED <<trackVars, clientVars, templateVars>>

\* interaction.edit_original_response(embed, attachments) returns or raises.
EditReply(r, edited) ==
    /\ generations[r].pc = "reply"
    /\ IF edited
       THEN Becomes(r, [generations[r] EXCEPT !.pc = "closing", !.result = "image"])
       ELSE Becomes(r, [generations[r] EXCEPT !.pc = "except", !.error = "HTTPException"])
    /\ UNCHANGED <<generation_locks, locks_made, locked, running, clients_made, submitted>>
    /\ UNCHANGED <<trackVars, clientVars, templateVars>>

ExceptSkipsClose(r) ==
    /\ generations[r].pc = "except"
    /\ Becomes(r, [generations[r] EXCEPT !.pc = "end", !.result = "failed"])
    /\ running' = FALSE
    /\ Leave(r)
    /\ UNCHANGED <<generation_locks, locks_made, clients_made, submitted>>
    /\ UNCHANGED <<trackVars, clientVars, templateVars>>

\* except Exception: the failure is reported, and whether or not reporting
\* it raises, finally runs: without a client, _running is cleared at once.
Except(r) ==
    /\ generations[r].pc = "except"
    /\ LET rec == [generations[r] EXCEPT !.result = "failed"]
       IN  IF rec.client = 0
           THEN /\ Becomes(r, [rec EXCEPT !.pc = "end"])
                /\ running' = FALSE
                /\ Leave(r)
           ELSE /\ Becomes(r, [rec EXCEPT !.pc = "closing"])
                /\ UNCHANGED <<running, locked>>
    /\ UNCHANGED <<generation_locks, locks_made, clients_made, submitted>>
    /\ UNCHANGED <<trackVars, clientVars, templateVars>>

\* finally: client.close() returns, _running is cleared, the lock released.
Close(r) ==
    /\ generations[r].pc = "closing"
    /\ Becomes(r, [generations[r] EXCEPT !.pc = "end", !.websocket = "None",
                                         !.closed = @ + 1])
    /\ running' = FALSE
    /\ Leave(r)
    /\ UNCHANGED <<generation_locks, locks_made, clients_made, submitted>>
    /\ UNCHANGED <<trackVars, clientVars, templateVars>>

FlowInit == Init

FlowNext ==
    \/ \E r \in Generations, u \in UserIds, passed \in BOOLEAN, prompt \in UserPrompts,
          workflow_name \in WorkflowNames :
            Genimg(r, u, passed, prompt, workflow_name)
    \/ \E r \in Generations : AcquireLock(r)
    \/ \E r \in Generations : Refuse(r)
    \/ \E r \in Generations, sent \in BOOLEAN :
            \E built \in BuildOutcomes(generations[r].workflow_name) : Announce(r, sent, built)
    \/ \E r \in Generations, connected \in BOOLEAN, rendered \in RenderOutcomes :
            ConnectEnds(r, connected, rendered)
    \/ \E r \in Generations, reply \in FlowSubmitReplies(submitted + 1) : Submit(r, reply)
    \/ \E r \in Generations, edits \in BOOLEAN :
            \E stream \in Streams(generations[r].prompt_id) : TrackEnds(r, stream, edits)
    \/ \E r \in Generations, reply \in ImageReplies : Fetch(r, reply)
    \/ \E r \in Generations, edited \in BOOLEAN : EditReply(r, edited)
    \/ \E r \in Generations : Except(r)
    \/ \E r \in Generations : Close(r)

FlowSpec == FlowInit /\ [][FlowNext]_vars

\* The event loop resumes a coroutine whose await has ended, and every await
\* of the command ends: it returns or raises (a connection that stays open
\* ends too, see Streams).
FlowFairSpec == FlowSpec /\ WF_vars(FlowNext)

(***************************************************************************)
(* WorkflowTemplate (src/src/discord_comfyui/workflow_template.py): a      *)
(* graph (workflow_data: node id -> node, in the order of the dict) with   *)
(* a descriptor (template_config), validated when constructed.             *)
(***************************************************************************)

\* The nodes of a graph.
MaxNodes == 3

\* The characters of the strs this model looks for substrings in, word by
\* word (no other str of the model occurs in one of them).
Chars(str) ==
    CASE str = "" -> <<>>
      [] str = "Positive Prompt" -> <<"Positive", " ", "Prompt">>
      [] str = "Negative Prompt" -> <<"Negative", " ", "Prompt">>
      [] str = "some text" -> <<"some", " ", "text">>
      [] OTHER -> <<str>>

\* sub in str, for two strs.
Substring(sub, str) ==
    LET a == Chars(sub)
        b == Chars(str)
    IN  \E i \in 0..(Len(b) - Len(a)) : \A j \in 1..Len(a) : b[i + j] = a[j]

Found(b) == [exc |-> "", b |-> b]

\* key in obj, for a str key: a key of a dict, an item of a list, a
\* substring of a str; anything else is not iterable.
Contains(obj, key) ==
    CASE obj.t = "dict" -> Found(\E i \in 1..Len(obj.items) : obj.items[i].k = key)
      [] obj.t = "list" -> Found(\E i \in 1..Len(obj.items) : obj.items[i].v = JStr(key))
      [] obj.t = "str" -> Found(Substring(key, obj.s))
      [] OTHER -> [exc |-> "TypeError", b |-> FALSE]

\* The call raised e and left the mapping as obj.
Failed(e, obj) == [exc |-> e, val |-> obj]

\* obj[key] = value: a dict replaces the key's value or adds the key at the
\* end; nothing else takes a str key.
SetItemKey(obj, key, value) ==
    IF obj.t # "dict" THEN Failed("TypeError", obj)
    ELSE IF \E i \in 1..Len(obj.items) : obj.items[i].k = key
    THEN Ok(JDict([i \in 1..Len(obj.items) |->
                    IF obj.items[i].k = key THEN KV(key, value) ELSE obj.items[i]]))
    ELSE Ok(JDict(Append(obj.items, KV(key, value))))

\* obj.get(key, default)
GetOr(obj, key, default) ==
    IF \E i \in 1..Len(obj.items) : obj.items[i].k = key
    THEN obj.items[CHOOSE i \in 1..Len(obj.items) : obj.items[i].k = key].v
    ELSE default

\* list(workflow_data.values())
Values(graph) == [i \in 1..Len(graph.items) |-> graph.items[i].v]

\* node.get("class_type")
class_type(node) == GetOr(node, "class_type", JNull)

\* node.get("_meta", {}).get("title", "")
title(node) == GetOr(GetOr(node, "_meta", JDict(<<>>)), "title", JStr(""))

\* if prompt_config.match_meta: None and "" are false.
Truthy(match_meta) == match_meta # JNull /\ match_meta # JStr("")

\* The test of _validate_workflow and update_prompts on a node for an entry
\* of descriptor.prompts.
Qualifies(node, entry) ==
    /\ class_type(node) = JStr(entry.node_type)
    /\ Truthy(entry.match_meta) => Substring(entry.match_meta.s, title(node).s)

\* The test on a node for the model entry.
IsModel(node, config) == class_type(node) = JStr(config.model.node_type)

\* The entry of descriptor.prompts a name has.
Declared(config, name) == \E k \in 1..Len(config.prompts) : config.prompts[k].name = name

EntryOf(config, name) ==
    config.prompts[CHOOSE k \in 1..Len(config.prompts) : config.prompts[k].name = name].slot

validate_any_model(graph, config) == TRUE

\* The first loop of _validate_workflow: model_found.
model_found(graph, config) ==
    \E i \in 1..Len(graph.items) : IsModel(Values(graph)[i], config)

validate_kind_only(graph, entry) ==
    \E i \in 1..Len(graph.items) : class_type(Values(graph)[i]) = JStr(entry.node_type)

\* The inner loop of _validate_workflow: prompt_found.
prompt_found(graph, entry) ==
    \E i \in 1..Len(graph.items) : Qualifies(Values(graph)[i], entry)

\* _validate_workflow: ValueError naming the model, or the first prompt
\* entry of the descriptor no node is found for.
validate_workflow(graph, config) ==
    LET missing == {k \in 1..Len(config.prompts) : ~prompt_found(graph, config.prompts[k].slot)}
    IN  IF ~model_found(graph, config) THEN [exc |-> "ValueError", missing |-> "model"]
        ELSE IF missing # {}
        THEN [exc |-> "ValueError",
              missing |-> config.prompts[CHOOSE k \in missing : \A m \in missing : k <= m].name]
        ELSE [exc |-> "", missing |-> ""]

\* _get_node_value(node, path)
RECURSIVE get_node_value(_, _)
get_node_value(current, path) ==
    IF path = <<>> THEN Ok(current)
    ELSE LET found == Contains(current, Head(path))
             item == GetItemKey(current, Head(path))
         IN  IF found.exc # "" THEN Raise(found.exc)
             ELSE IF ~found.b THEN Raise("ValueError")
             ELSE IF item.exc # "" THEN item
             ELSE get_node_value(item.val, Tail(path))

\* The loop of _set_node_value over path[:-1] and the final assignment, for
\* a path that is not empty: the mapping as the call leaves it.
RECURSIVE set_along(_, _, _)
set_along(current, path, value) ==
    IF Len(path) = 1 THEN SetItemKey(current, path[1], value)
    ELSE LET key == Head(path)
             found == Contains(current, key)
             made == IF found.b THEN Ok(current) ELSE SetItemKey(current, key, JDict(<<>>))
             item == GetItemKey(made.val, key)
             inner == set_along(item.val, Tail(path), value)
         IN  IF found.exc # "" THEN Failed(found.exc, current)
             ELSE IF made.exc # "" THEN made
             ELSE IF item.exc # "" THEN Failed(item.exc, made.val)
             ELSE [exc |-> inner.exc, val |-> SetItemKey(made.val, key, inner.val).val]

set_node_value_flat(node, path, value) ==
    IF path = <<>> THEN Failed("IndexError", node)
    ELSE SetItemKey(node, path[Len(path)], value)

\* _set_node_value(node, path, value): path[-1] of an empty path raises
\* IndexError.
set_node_value(node, path, value) ==
    IF path = <<>> THEN Failed("IndexError", node) ELSE set_along(node, path, value)

get_model_name_last(graph, config) ==
    LET models == {i \in 1..Len(graph.items) : IsModel(Values(graph)[i], config)}
    IN  IF models = {} THEN Ok(JStr(""))
        ELSE get_node_value(Values(graph)[CHOOSE i \in models : \A j \in models : j <= i],
                            config.model.path)

\* get_model_name(): the value at the model path of the first model node.
get_model_name(graph, config) ==
    LET models == {i \in 1..Len(graph.items) : IsModel(Values(graph)[i], config)}
    IN  IF models = {} THEN Ok(JStr(""))
        ELSE get_node_value(Values(graph)[CHOOSE i \in models : \A j \in models : i <= j],
                            config.model.path)

\* The inner loop of update_prompts from the i-th node on: every node that
\* qualifies is set; an exception of _set_node_value ends the call.
RECURSIVE update_nodes(_, _, _, _)
update_nodes(graph, entry, text, i) ==
    IF i > Len(graph.items) THEN Ok(graph)
    ELSE IF ~Qualifies(Values(graph)[i], entry) THEN update_nodes(graph, entry, text, i + 1)
    ELSE LET set == set_node_value(Values(graph)[i], entry.path, text)
             changed == JDict([graph.items EXCEPT ![i] = KV(graph.items[i].k, set.val)])
         IN  IF set.exc # "" THEN Failed(set.exc, changed)
             ELSE update_nodes(changed, entry, text, i + 1)

skip_undeclared_never(config, name) == FALSE

\* if prompt_name not in self.template_config.prompts: continue
skip_undeclared(config, name) == ~Declared(config, name)

\* update_prompts(prompts) from the k-th item of prompts on.
RECURSIVE update_prompts(_, _, _, _)
update_prompts(graph, config, prompts, k) ==
    IF k > Len(prompts) THEN Ok(graph)
    ELSE IF skip_undeclared(config, prompts[k].name)
    THEN update_prompts(graph, config, prompts, k + 1)
    ELSE IF ~Declared(config, prompts[k].name) THEN Failed("KeyError", graph)
    ELSE LET updated == update_nodes(graph, EntryOf(config, prompts[k].name),
                                     prompts[k].text, 1)
         IN  IF updated.exc # "" THEN updated
             ELSE update_prompts(updated.val, config, prompts, k + 1)

(***************************************************************************)
(* The graphs and descriptors templates are constructed with, and the      *)
(* calls made on a template.                                               *)
(***************************************************************************)
Checkpoint(ckpt_name) ==
    JDict(<<KV("class_type", JStr("CheckpointLoaderSimple")),
            KV("inputs", JDict(<<KV("ckpt_name", JStr(ckpt_name))>>))>>)

Encode(node_title) ==
    JDict(<<KV("class_type", JStr("CLIPTextEncode")),
            KV("inputs", JDict(<<KV("text", JStr(""))>>)),
            KV("_meta", JDict(<<KV("title", JStr(node_title))>>))>>)

\* Two model nodes, two titled prompt nodes, a prompt node without inputs
\* and _meta, a node without class_type.
NodeKinds ==
    {Checkpoint("sd_xl.safetensors"), Checkpoint("flux1-dev-fp8.safetensors"),
     Encode("Positive Prompt"), Encode("Negative Prompt"),
     JDict(<<KV("class_type", JStr("CLIPTextEncode"))>>),
     JDict(<<KV("_meta", JDict(<<KV("title", JStr("Positive Prompt"))>>))>>)}

\* The id of the i-th node of a graph.
NodeId(i) == <<"1", "2", "3", "4">>[i]

\* The graph of the nodes ns, in this order.
Graph(ns) == JDict([i \in 1..Len(ns) |-> KV(NodeId(i), ns[i])])

Graphs == {Graph(ns) : ns \in UNION {[1..n -> NodeKinds] : n \in 0..MaxNodes}}

ModelEntry == NodeTemplate("CheckpointLoaderSimple", <<"inputs", "ckpt_name">>, JNull)

PromptEntry(match_meta) == NodeTemplate("CLIPTextEncode", <<"inputs", "text">>, match_meta)

\* Descriptors: prompt nodes told apart by their titles; a prompt entry
\* without match_meta; one with an empty match_meta; a model path that the
\* model nodes do not have; a prompt entry that writes the class_type of
\* the model nodes.
Configs ==
    {WorkflowTemplateConfig(ModelEntry,
        <<Slot("positive", PromptEntry(JStr("Positive"))),
          Slot("negative", PromptEntry(JStr("Negative")))>>),
     WorkflowTemplateConfig(ModelEntry,
        <<Slot("positive", PromptEntry(JNull)),
          Slot("negative", PromptEntry(JStr("Negative")))>>),
     WorkflowTemplateConfig(ModelEntry, <<Slot("positive", PromptEntry(JStr("")))>>),
     WorkflowTemplateConfig(
        NodeTemplate("CheckpointLoaderSimple", <<"inputs", "model_name">>, JNull), <<>>),
     WorkflowTemplateConfig(ModelEntry,
        <<Slot("positive", NodeTemplate("CheckpointLoaderSimple", <<"class_type">>, JNull))>>)}

Prompt(name, text) == [name |-> name, text |-> JStr(text)]

\* The dicts update_prompts is called with; "style" is a name no
\* descriptor declares.
PromptDicts ==
    {<<Prompt("positive", "a cat")>>,
     <<Prompt("positive", "a cat"), Prompt("negative", "blurry")>>,
     <<Prompt("style", "oil")>>,
     <<Prompt("positive", "a cat"), Prompt("style", "oil"), Prompt("negative", "blurry")>>}

\* The contexts a workflow is rendered with.
Contexts ==
    {[positive_prompt |-> text, model_name |-> "sd_xl.safetensors", steps |-> 20, cfg |-> 7] :
        text \in {"a cat", "a cat, \"striped\""}}

\* A call: its name and arguments, the mapping it works on before and
\* after, what it raised and returned.
Call(op, name, node, path, value, prompts, before, after, exc, val) ==
    [op |-> op, name |-> name, node |-> node, path |-> path, value |-> value,
     prompts |-> prompts, before |-> before, after |-> after, exc |-> exc, val |-> val]

\* WorkflowTemplate(workflow_data, template_config)
NewTemplate(graph, config) ==
    /\ template.state = "none"
    /\ LET valid == validate_workflow(graph, config)
       IN  /\ template' = [state |-> IF valid.exc = "" THEN "ready" ELSE "invalid",
                           workflow_data |-> graph, template_config |-> config,
                           exc |-> valid.exc, missing |-> valid.missing]
           /\ template_call' = Call("__init__", "", JNull, <<>>, JNull, <<>>, graph, graph,
                                    valid.exc, JNull)
    /\ UNCHANGED <<trackVars, clientVars, flowVars>>

\* template.get_model_name()
GetModelName ==
    /\ template.state = "ready"
    /\ LET r == get_model_name(template.workflow_data, template.template_config)
       IN  template_call' = Call("get_model_name", "", JNull, <<>>, JNull, <<>>,
                                 template.workflow_data, template.workflow_data,
                                 r.exc, r.val)
    /\ UNCHANGED template
    /\ UNCHANGED <<trackVars, clientVars, flowVars>>

\* template.update_prompts(prompts)
UpdatePrompts(prompts) ==
    /\ template.state = "ready"
    /\ LET r == update_prompts(template.workflow_data, template.template_config, prompts, 1)
       IN  /\ template' = [template EXCEPT !.workflow_data = r.val]
           /\ template_call' = Call("update_prompts", "", JNull, <<>>, JNull, prompts,
                                    template.workflow_data, r.val, r.exc, JNull)
    /\ UNCHANGED <<trackVars, clientVars, flowVars>>

\* GenerationRequest(workflow_name=name, ...).get_workflow_api_json()
RenderWorkflow(name, context) ==
    /\ template.state = "none"
    /\ LET r == render_workflow(name, context)
       IN  template_call' = Call("render", name, JNull, <<>>, JStr(context.model_name),
                                 <<Prompt("positive", context.positive_prompt)>>,
                                 JNull, JNull, r.exc, r.val)
    /\ UNCHANGED template
    /\ UNCHANGED <<trackVars, clientVars, flowVars>>

TemplateInit == Init

TemplateNext ==
    \/ \E graph \in Graphs, config \in Configs : NewTemplate(graph, config)
    \/ GetModelName
    \/ \E prompts \in PromptDicts : UpdatePrompts(prompts)
    \/ \E name \in WorkflowNames, context \in Contexts : RenderWorkflow(name, context)

TemplateSpec == TemplateInit /\ [][TemplateNext]_vars

(***************************************************************************)
(* WorkflowTemplate._get_node_value and _set_node_value on any node and    *)
(* path: the arguments are drawn first, then the functions are applied,    *)
(* _get_node_value also to the node _set_node_value has changed.           *)
(***************************************************************************)
\* The keys of a path.
MaxPath == 3

PathKeys == {"inputs", "text", "seed", "model", "extra"}

Paths == UNION {[1..n -> PathKeys] : n \in 0..MaxPath}

\* A node whose inputs hold a str, a number and a link to another node's
\* output; a node without keys.
AccessNodes ==
    {JDict(<<KV("inputs", JDict(<<KV("text", JStr("some text")), KV("seed", JInt(5)),
                                   KV("model", JList(<<Item(JStr("text")), Item(JInt(0))>>))>>))>>),
     JDict(<<>>)}

\* The values set.
AccessValues == {JStr("a cat"), JInt(7)}

\* The arguments node, path, value are chosen.
Arguments(node, path, value) ==
    template_call = Call("none", "", node, path, value, <<>>, node, node, "", JNull)

\* self._get_node_value(node, path), on the node as it is now.
GetNodeValue ==
    /\ template_call.op \in {"none", "set"}
    /\ LET r == get_node_value(template_call.after, template_call.path)
       IN  template_call' = [template_call EXCEPT
                                !.op = IF template_call.op = "none" THEN "get" ELSE "set_get",
                                !.exc = r.exc, !.val = r.val]
    /\ UNCHANGED template
    /\ UNCHANGED <<trackVars, clientVars, flowVars>>

\* self._set_node_value(node, path, value)
SetNodeValue ==
    /\ template_call.op = "none"
    /\ LET r == set_node_value(template_call.node, template_call.path, template_call.value)
       IN  template_call' = [template_call EXCEPT !.op = "set", !.after = r.val,
                                                  !.exc = r.exc]
    /\ UNCHANGED template
    /\ UNCHANGED <<trackVars, clientVars, flowVars>>

AccessorInit ==
    /\ InitClient("c-1")
    /\ NoGenerations
    /\ template = [state |-> "none", workflow_data |-> JNull,
                   template_config |-> WorkflowTemplateConfig(NodeTemplate("", <<>>, JNull), <<>>),
                   exc |-> "", missing |-> ""]
    /\ \E node \in AccessNodes, path \in Paths, value \in AccessValues :
            Arguments(node, path, value)

AccessorNext == GetNodeValue \/ SetNodeValue

AccessorSpec == AccessorInit /\ [][AccessorNext]_vars

(***************************************************************************)
(* Vocabulary of the properties                                            *)
(***************************************************************************)
Last(seq) == seq[Len(seq)]

\* The terminal frame of the tracked submission.
OwnTerminal == TextFrame(TerminalDoc(prompt_id))

\* This step handles a frame of S: it is read, or the callback it was passed
\* to ends.
Handles(S) ==
    /\ pc \in {"recv", "callback"}
    /\ received' # <<>>
    /\ Last(received') \in S
    /\ (received' # received \/ pc = "callback")

\* This step only passes the frame to an observer that awaits.
AwaitsObserver ==
    /\ pc = "recv" /\ pc' = "callback" /\ callback # "None"
    /\ image_filename' = image_filename /\ returned' = returned /\ error' = ""

\* This step is the observer raising at its await.
ObserverRaised ==
    /\ pc = "callback" /\ pc' = "failed" /\ error' = CallbackError(callback)
    /\ returned' = NotReturned

IsExecuted(frame) ==
    frame.kind = "text" /\ frame.wf /\ GetItemKey(frame.doc, "type") = Ok(JStr("executed"))

IsProgress(frame) ==
    frame.kind = "text" /\ frame.wf /\ GetItemKey(frame.doc, "type") = Ok(JStr("progress"))

\* The filename of the first image of an 'executed' frame, "" when it has none.
FirstImageFilename(frame) ==
    IF \E F \in Filenames, p \in PromptIds : frame = TextFrame(ExecutedDoc(F, p))
    THEN JStr(CHOOSE F \in Filenames : \E p \in PromptIds : frame = TextFrame(ExecutedDoc(F, p)))
    ELSE JStr("")

\* The filename of the last 'executed' frame among the first n frames.
RECURSIVE RecordedAfter(_, _)
RecordedAfter(frames, n) ==
    IF n = 0 THEN JStr("")
    ELSE IF IsExecuted(frames[n]) THEN FirstImageFilename(frames[n])
    ELSE RecordedAfter(frames, n - 1)

\* Progress frames, then one 'executed' frame with filename F, then the
\* terminal frame of the tracked submission.
ProgressExecutedTerminal(frames, F) ==
    /\ Len(frames) >= 2
    /\ frames[Len(frames)] = OwnTerminal
    /\ \E p \in PromptIds : frames[Len(frames) - 1] = TextFrame(ExecutedDoc(F, p))
    /\ \A i \in 1..(Len(frames) - 2) : frames[i] \in ProgressFrames

(***************************************************************************)
(* C1.  The terminal frame ('executing', node null, prompt_id = the        *)
(* tracked one) is passed to the observer first; unless the observer       *)
(* raises on it, it ends tracking successfully and the value returned is   *)
(* the filename recorded so far.  For progress frames, then one 'executed' *)
(* frame with filename F, then the terminal frame, track_progress returns  *)
(* F unless the observer raised.                                           *)
(***************************************************************************)
C1_TerminalFrameReturnsRecorded ==
    /\ [][Handles({OwnTerminal}) =>
            \/ pc' = "done" /\ returned' = [set |-> TRUE, val |-> image_filename]
                            /\ error' = ""
            \/ AwaitsObserver /\ callback = "observer"
            \/ ObserverRaised /\ callback = "observer"]_vars
    /\ [](\A F \in Filenames :
            ProgressExecutedTerminal(received, F) =>
                \/ pc = "done" /\ returned = [set |-> TRUE, val |-> JStr(F)]
                \/ pc = "callback"
                \/ pc = "failed" /\ error = CallbackError(callback) /\ callback = "observer")

C1_Witness ==
    /\ pc = "done"
    /\ callback = "progress_callback"
    /\ received = <<TextFrame(ProgressDoc(5, 20, "abc")),
                    TextFrame(ExecutedDoc("out_001.png", "abc")),
                    TextFrame(TerminalDoc("abc"))>>
    /\ returned = [set |-> TRUE, val |-> JStr("out_001.png")]

\* C1 as stated: once the terminal frame is received (and no observer call is
\* pending), tracking has ended successfully with the recorded filename.
C1_Original ==
    (received # <<>> /\ Last(received) = OwnTerminal /\ pc # "callback") =>
        pc = "done" /\ returned = [set |-> TRUE, val |-> image_filename]

(***************************************************************************)
(* C2.  track_progress returns only after the terminal frame of the        *)
(* tracked submission was received: whenever it has returned, the last     *)
(* frame it read is that frame, and while the frames read do not include   *)
(* it, it has not returned.                                                *)
(***************************************************************************)
C2_ReturnsOnlyAfterTerminal ==
    /\ (pc = "done" <=> returned.set)
    /\ pc = "done" => received # <<>> /\ Last(received) = OwnTerminal
    /\ (\A i \in 1..Len(received) : received[i] # OwnTerminal) => ~returned.set

C2_Witness ==
    /\ pc = "done"
    /\ Len(received) = 3
    /\ received[1] \in ExecutedFrames
    /\ received[2] \in TerminalFrames

(***************************************************************************)
(* C3.  Every 'executed' frame overwrites the recorded filename: between   *)
(* frames, and when track_progress returns, the filename is the one of the *)
(* last 'executed' frame received, whatever earlier ones contained.        *)
(***************************************************************************)
C3_LastExecutedWins ==
    /\ pc \in {"recv", "done"} => image_filename = RecordedAfter(received, Len(received))
    /\ pc = "done" => returned.val = RecordedAfter(received, Len(received))

C3_Witness ==
    /\ pc = "done"
    /\ received = <<TextFrame(ExecutedDoc("other.png", "xyz")),
                    TextFrame(ExecutedDoc("out_001.png", "abc")),
                    TextFrame(TerminalDoc("abc"))>>
    /\ returned.val = JStr("out_001.png")

(***************************************************************************)
(* C4.  An 'executed' frame whose images[0].filename path does not resolve *)
(* never fails in the extraction: it is passed to the observer and, unless *)
(* the observer raises on it, the recorded filename becomes the empty      *)
(* string and tracking continues with the next frame.                      *)
(***************************************************************************)
C4_BrokenExecutedRecordsEmpty ==
    /\ [][Handles(BrokenExecutedFrames) =>
            \/ pc' = "recv" /\ image_filename' = JStr("") /\ error' = ""
                            /\ returned' = NotReturned
            \/ AwaitsObserver /\ callback = "observer"
            \/ ObserverRaised /\ callback = "observer"]_vars
    /\ [](\A d \in BrokenExecutedFrames : extract_filename(d.doc) = Ok(JStr("")))

C4_Witness ==
    /\ pc = "recv"
    /\ callback = "progress_callback"
    /\ Len(received) = 2
    /\ received[1] = TextFrame(ExecutedDoc("out_001.png", "abc"))
    /\ received[2] \in BrokenExecutedFrames
    /\ image_filename = JStr("")

\* C4 as stated: after such a frame (no observer call pending) tracking goes on
\* with the empty filename recorded; only the next read can fail.
C4_Original ==
    (received # <<>> /\ Last(received) \in BrokenExecutedFrames /\ pc # "callback") =>
        /\ image_filename = JStr("")
        /\ pc = "recv" \/ (pc = "failed" /\ error = "ConnectionClosed")

(***************************************************************************)
(* C5.  A failed read and a text frame that is no JSON document make       *)
(* track_progress fail with that error: the frame is not passed to the     *)
(* observer, nothing is returned, and after the failure no frame is read   *)
(* and nothing changes (no retry).                                         *)
(***************************************************************************)
C5_ReadAndDecodeFailuresPropagate ==
    /\ [][RecvFails => pc' = "failed" /\ error' = "ConnectionClosed"
                       /\ returned' = NotReturned]_vars
    /\ [][(pc = "recv" /\ received' = Append(received, NotJsonFrame)) =>
            /\ pc' = "failed" /\ error' = "JSONDecodeError"
            /\ returned' = NotReturned /\ forwarded' = forwarded]_vars
    /\ [][pc = "failed" => UNCHANGED vars]_vars
    /\ [](\A i \in 1..Len(received) :
            received[i] = NotJsonFrame => i = Len(received) /\ pc = "failed")
    /\ [](pc = "failed" => error # "" /\ returned = NotReturned)

C5_Witness ==
    /\ pc = "failed"
    /\ error = "JSONDecodeError"
    /\ Len(received) = 3
    /\ received[2] \in ExecutedFrames
    /\ received[3] = NotJsonFrame

(***************************************************************************)
(* C6.  Apart from the filename extraction, the parse failures the code    *)
(* runs into are fatal: a text frame without a 'type' (a dict without the  *)
(* key, or no dict), an 'executing' frame without 'node', an 'executing'   *)
(* frame with a null node and no 'prompt_id', a binary frame shorter than  *)
(* its 4-byte header and a preview frame shorter than 8 bytes make         *)
(* track_progress fail, at the latest when the observer has returned.  An  *)
(* 'executing' frame with a non-null node and no 'prompt_id' and a binary  *)
(* frame of another event type are skipped without failure.                *)
(***************************************************************************)
FatalFrames == UntypedFrames \cup BrokenExecutingFrames \cup TruncatedBinaryFrames

\* The frames C6 as stated calls fatal and the code skips.
SkippedFrames ==
    {TextFrame(Message("executing", JDict(<<KV("node", JStr("5"))>>)))}
        \cup UnknownBinaryFrames

C6_ParseFailuresAreFatal ==
    /\ [][Handles(FatalFrames) =>
            \/ pc' = "failed" /\ error' \in {"KeyError", "TypeError", "struct.error"}
                              /\ returned' = NotReturned
            \/ AwaitsObserver /\ callback = "observer"
            \/ ObserverRaised /\ callback = "observer"]_vars
    /\ [](\A i \in 1..Len(received) :
            received[i] \in FatalFrames =>
                i = Len(received) /\ pc \in {"callback", "failed"})
    /\ [][Handles(SkippedFrames) =>
            \/ pc' = "recv" /\ error' = "" /\ image_filename' = image_filename
            \/ AwaitsObserver /\ callback = "observer"
            \/ ObserverRaised /\ callback = "observer"]_vars

C6_Witness ==
    /\ pc = "failed"
    /\ callback = "None"
    /\ error = "KeyError"
    /\ Len(received) = 3
    /\ received[1] = TextFrame(Message("executing", JDict(<<KV("node", JStr("5"))>>)))
    /\ received[2] \in UnknownBinaryFrames
    /\ received[3] = TextFrame(Message("executing", JDict(<<KV("node", JNull)>>)))

\* C6 as stated: every frame without 'type', every 'executing' frame without
\* 'node' or 'prompt_id' and every binary frame that is no defined event is
\* fatal.
C6_Original ==
    \A i \in 1..Len(received) :
        received[i] \in FatalFrames \cup SkippedFrames =>
            i = Len(received) /\ pc \in {"callback", "failed"}

(***************************************************************************)
(* C7.  An 'executing' frame with a non-null node, the terminal frame of   *)
(* another submission, a 'status' frame and a frame of an unknown type     *)
(* never end tracking and never change the recorded filename: tracking     *)
(* goes on, unless the observer they are passed to raises.                 *)
(***************************************************************************)
NoEffectFrames ==
    NodeExecutingFrames \cup (TerminalFrames \ {OwnTerminal}) \cup OtherFrames

C7_NoEffectFrames ==
    [][Handles(NoEffectFrames) =>
        /\ pc' # "done"
        /\ returned' = NotReturned
        /\ image_filename' = image_filename
        /\ \/ pc' = "recv" /\ error' = ""
           \/ AwaitsObserver /\ callback = "observer"
           \/ ObserverRaised /\ callback = "observer"]_vars

C7_Witness ==
    /\ pc = "recv"
    /\ Len(received) = 3
    /\ received[1] = TextFrame(ExecutedDoc("out_001.png", "abc"))
    /\ received[2] \in TerminalFrames
    /\ received[3] = TextFrame(StatusDoc)
    /\ image_filename = JStr("out_001.png")

(***************************************************************************)
(* C8.  With an observer, the progress frames passed to it are exactly the *)
(* progress frames received, once each and in the order received, whatever *)
(* their prompt_id; without one, nothing is passed.  A progress frame      *)
(* never ends tracking and never changes the recorded filename.            *)
(***************************************************************************)
IsProgressEvent(event) == GetItemKey(event, "type") = Ok(JStr("progress"))

ProgressReceived == SelectSeq(received, IsProgress)

ProgressForwarded == SelectSeq(forwarded, IsProgressEvent)

C8_ProgressForwardedInOrder ==
    /\ [](callback = "None" => forwarded = <<>>)
    /\ [](callback # "None" =>
            /\ Len(ProgressForwarded) = Len(ProgressReceived)
            /\ \A i \in 1..Len(ProgressReceived) :
                    ProgressForwarded[i] = ProgressReceived[i].doc)
    /\ [][Handles(ProgressFrames \cup MalformedProgressFrames) =>
            /\ pc' # "done"
            /\ returned' = NotReturned
            /\ image_filename' = image_filename]_vars

C8_Witness ==
    /\ pc = "recv"
    /\ prompt_id = "abc"
    /\ callback = "progress_callback"
    /\ image_filename = JStr("out_001.png")
    /\ forwarded = <<ExecutedDoc("out_001.png", "abc"), ProgressDoc(10, 20, "xyz"),
                     ProgressDoc(5, 20, "abc")>>

(***************************************************************************)
(* C9.  A binary frame that starts with the bytes 00 00 00 01 is decoded   *)
(* to a preview-image event: format "JPEG" when the next four bytes are    *)
(* 00 00 00 01, "PNG" for any other four bytes, image bytes the bytes from *)
(* offset 8 to the end.  (The event is what the observer is called with.)  *)
(***************************************************************************)
IsPreview(frame) ==
    frame.kind = "binary" /\ Len(frame.bytes) >= 8
        /\ SubSeq(frame.bytes, 1, 4) = <<0, 0, 0, 1>>

ExpectedPreview(frame) ==
    PreviewEvent(IF SubSeq(frame.bytes, 5, 8) = <<0, 0, 0, 1>> THEN "JPEG" ELSE "PNG",
                 SubSeq(frame.bytes, 9, Len(frame.bytes)))

IsPreviewEvent(event) == GetItemKey(event, "type") = Ok(JStr("preview_image"))

PreviewsReceived == SelectSeq(received, IsPreview)

PreviewsForwarded == SelectSeq(forwarded, IsPreviewEvent)

C9_PreviewDecoding ==
    callback # "None" =>
        /\ Len(PreviewsForwarded) = Len(PreviewsReceived)
        /\ \A i \in 1..Len(PreviewsReceived) :
                PreviewsForwarded[i] = ExpectedPreview(PreviewsReceived[i])

C9_Witness ==
    /\ callback = "observer"
    /\ pc = "recv"
    /\ received = <<BinaryFrame(<<0, 0, 0, 1, 0, 0, 0, 2, 137>>),
                    BinaryFrame(<<0, 0, 0, 2, 0, 0, 0, 1, 7>>),
                    BinaryFrame(<<0, 0, 0, 1, 0, 0, 0, 1, 255, 216>>)>>
    /\ forwarded = <<PreviewEvent("PNG", <<137>>), PreviewEvent("JPEG", <<255, 216>>)>>

(***************************************************************************)
(* C10.  A preview frame is passed to the observer when there is one (and  *)
(* to nothing when there is none), never ends tracking and leaves the      *)
(* recorded filename unchanged.                                            *)
(***************************************************************************)
C10_PreviewForwardedOnly ==
    /\ [][Handles(PreviewFrames) =>
            /\ pc' # "done"
            /\ returned' = NotReturned
            /\ image_filename' = image_filename]_vars
    /\ [][(pc = "recv" /\ Handles(PreviewFrames)) =>
            forwarded' = IF callback = "None" THEN forwarded
                         ELSE Append(forwarded, ExpectedPreview(Last(received')))]_vars

C10_Witness ==
    /\ pc = "recv"
    /\ callback = "progress_callback"
    /\ image_filename = JStr("out_001.png")
    /\ received = <<TextFrame(ExecutedDoc("out_001.png", "abc")),
                    BinaryFrame(<<0, 0, 0, 1, 0, 0, 0, 1, 255, 216>>)>>
    /\ forwarded = <<ExecutedDoc("out_001.png", "abc"), PreviewEvent("JPEG", <<255, 216>>)>>

(***************************************************************************)
(* C12.  connect() reads exactly one frame and drops it: once a connection *)
(* was opened one frame has been read by connect, track_progress reads     *)
(* from the second frame on, the events forwarded to the observer are      *)
(* those of frames track_progress read, and a first frame that is the      *)
(* terminal frame of the tracked submission neither ends tracking nor      *)
(* records anything.                                                       *)
(***************************************************************************)
\* The frames the connection delivered, in order.
Sent == handshake \o received

\* The event a frame is forwarded as.
EventOf(frame) == IF frame.kind = "text" THEN frame.doc ELSE ExpectedPreview(frame)

C12_HandshakeDiscarded ==
    /\ conn = "none" => handshake = <<>> /\ received = <<>>
    /\ conn # "none" => /\ Len(handshake) = 1
                        /\ received = SubSeq(Sent, 2, Len(Sent))
    /\ pc = "idle" => received = <<>> /\ forwarded = <<>> /\ image_filename = JStr("")
    /\ \A i \in 1..Len(forwarded) :
            \E j \in 1..Len(received) : forwarded[i] = EventOf(received[j])
    /\ pc = "done" => received # <<>> /\ Last(received) = OwnTerminal
    /\ pc \in {"recv", "done"} => image_filename = RecordedAfter(received, Len(received))

C12_Witness ==
    /\ handshake = <<TextFrame(TerminalDoc("abc"))>>
    /\ prompt_id = "abc"
    /\ callback = "observer"
    /\ pc = "recv"
    /\ received = <<TextFrame(ProgressDoc(5, 20, "abc"))>>
    /\ forwarded = <<ProgressDoc(5, 20, "abc")>>

(***************************************************************************)
(* C13.  As stated: once close() has called websocket.close(), a           *)
(* track_progress call in progress that fails, fails with the transport's  *)
(* error (or with the error its observer raised), and a close() call       *)
(* raises nothing.                                                         *)
(***************************************************************************)
TransportErrors == {"ConnectionClosed"}

C13_CloseFailsTrackingWithTransportError ==
    /\ [][(ws_closes >= 1 /\ pc \in {"recv", "callback"} /\ pc' = "failed") =>
            (error' \in TransportErrors \/ ObserverRaised)]_vars
    /\ [][close_pc' # close_pc => api_error' = ""]_vars

(***************************************************************************)
(* C14.  close() is idempotent: a close() call that returns leaves the     *)
(* websocket reference None and the HTTP client closed; every step of a    *)
(* close() call made in that state changes nothing of the client;          *)
(* websocket.close() is called at most once, and only on a connection that *)
(* was opened; no close() call raises.                                     *)
(***************************************************************************)
CloseStep == close_pc' # close_pc

CloseReturns == close_pc = "aclose" /\ close_pc' = "idle"

Closed == websocket = "None" /\ http_client = "closed"

C14_CloseIdempotent ==
    /\ [][CloseReturns => Closed']_vars
    /\ [][(CloseStep /\ Closed) =>
            /\ Closed'
            /\ UNCHANGED <<conn, ws_closes, client_id, ws_url, handshake, opened, http_log>>
            /\ UNCHANGED trackVars]_vars
    /\ [][CloseStep => api_error' = ""]_vars
    /\ [](ws_closes <= Len(opened) /\ ws_closes <= 1)

C14_Witness ==
    /\ closes = 2
    /\ close_pc = "idle"
    /\ ws_closes = 1
    /\ Closed

(***************************************************************************)
(* C15.  The client's identifier never changes: self.client_id and         *)
(* self.ws_url stay what the constructor made them, the URL every          *)
(* connection is opened at carries that identifier, and so does the body   *)
(* of every POST /prompt.                                                  *)
(***************************************************************************)
C15_ClientIdFixed ==
    /\ [][client_id' = client_id /\ ws_url' = ws_url]_vars
    /\ [](ws_url = WsUrl(Server, client_id))
    /\ [](\A i \in 1..Len(opened) : opened[i].clientId = client_id)
    /\ [](\A i \in 1..Len(http_log) :
            http_log[i].path = "/prompt" => http_log[i].client_id = client_id)

C15_Witness ==
    /\ client_id = "c-2"
    /\ opened = <<WsUrl(Server, "c-2")>>
    /\ pc = "done"
    /\ http_log = <<PostPrompt("workflow", "c-2"), GetView("out_001.png", "", "output")>>
    /\ closes = 1
    /\ close_pc = "idle"

(***************************************************************************)
(* C11.  Tracking a generation (observer: progress_callback), a malformed  *)
(* telemetry or preview frame (a progress frame lacking value/max or with  *)
(* max = 0, a truncated preview frame) never ends the call: the loop goes  *)
(* on reading with the filename recorded so far, so that the terminal      *)
(* frame still completes the generation with the artifact.                 *)
(***************************************************************************)
MalformedFrames == MalformedProgressFrames \cup TruncatedBinaryFrames

C11_MalformedFrameNeverAborts ==
    [][(callback = "progress_callback" /\ Handles(MalformedFrames)) =>
            (pc' = "recv" /\ image_filename' = image_filename)]_vars

(***************************************************************************)
(* Vocabulary of the gen_image properties                                  *)
(***************************************************************************)
\* The request is inside 'async with self.bot.get_user_lock(...)': from the
\* _running check, through render, submit, track and fetch, to finally.
InLock(G) ==
    G.pc \in {"refuse", "announce", "connect", "submit", "track", "fetch", "reply",
              "except", "closing"}

(***************************************************************************)
(* C16.  The identifier a request hands to track_progress is the prompt_id *)
(* of the response to its own submission: not its client's client_id, and  *)
(* not the prompt_id of any other request's submission.                    *)
(***************************************************************************)
C16_TracksOwnPromptId ==
    \A g \in Generations :
        LET G == generations[g]
        IN  G.tracked # <<>> =>
                /\ GetItemKey(G.response, "prompt_id") = Ok(JStr(G.tracked[1]))
                /\ G.tracked[1] # G.client_id
                /\ \A h \in Generations \ {g} : generations[h].prompt_id # G.tracked[1]

C16_Witness ==
    /\ generations[1].pc = "end"
    /\ generations[1].tracked = <<"abc">>
    /\ generations[2].pc = "fetch"
    /\ generations[2].tracked = <<"xyz">>
    /\ generations[2].client_id = "c-2"

(***************************************************************************)
(* C17.  A submission answered with a status >= 400 makes queue_prompt     *)
(* raise HTTPStatusError and return nothing: the request has no response   *)
(* and no prompt_id, goes to its except block, and never tracks, never     *)
(* fetches an image and never replies with one.                            *)
(***************************************************************************)
C17_FailedSubmissionStopsRequest ==
    \A g \in Generations :
        LET G == generations[g]
        IN  G.status >= 400 =>
                /\ G.error = "HTTPStatusError"
                /\ G.response = JNull
                /\ G.prompt_id = ""
                /\ G.tracked = <<>>
                /\ G.image_filename = JNull
                /\ G.fetched = <<>>
                /\ G.pc \in {"except", "closing", "end"}
                /\ G.result # "image"

C17_Witness ==
    /\ generations[1].status = 400
    /\ generations[1].pc = "end"
    /\ generations[1].closed = 1
    /\ generations[1].result = "failed"

(***************************************************************************)
(* C18.  For every user at most one request is inside the user's lock at   *)
(* any time, so at most one is between render and fetch; a request inside  *)
(* holds the lock get_user_lock returns for its user from before render    *)
(* until after fetch; and get_user_lock returns the same lock for the same *)
(* user every time, a different one for different users.                   *)
(***************************************************************************)
C18_PerUserLock ==
    /\ [](\A g, h \in Generations :
            (g # h /\ generations[g].user = generations[h].user /\ InLock(generations[g]))
                => ~InLock(generations[h]))
    /\ [](\A g \in Generations :
            InLock(generations[g]) =>
                /\ generations[g].lock \in locked
                /\ generations[g].lock = generation_locks[generations[g].user])
    /\ [](\A u, v \in UserIds :
            (u # v /\ generation_locks[u] # 0) => generation_locks[u] # generation_locks[v])
    /\ [][\A u \in UserIds :
            generation_locks[u] # 0 => generation_locks'[u] = generation_locks[u]]_vars

C18_Witness ==
    /\ generations[1].user = "alice"
    /\ generations[1].pc = "track"
    /\ generations[2].user = "alice"
    /\ generations[2].pc = "lock"
    /\ generations[2].lock = generations[1].lock

(***************************************************************************)
(* C19.  Every request that constructs a client constructs its own: no two *)
(* requests have the same client or the same client_id, so no two requests *)
(* awaiting track_progress read the same connection, and a request makes   *)
(* one track_progress call at most.                                        *)
(***************************************************************************)
C19_OwnClient ==
    /\ \A g, h \in Generations :
            (g # h /\ generations[g].client # 0 /\ generations[h].client # 0) =>
                /\ generations[g].client # generations[h].client
                /\ generations[g].client_id # generations[h].client_id
    /\ \A g, h \in Generations :
            (g # h /\ generations[g].pc = "track" /\ generations[h].pc = "track") =>
                generations[g].client # generations[h].client
    /\ \A g \in Generations :
            /\ Len(generations[g].tracked) <= 1
            /\ generations[g].websocket = "open" => generations[g].client # 0

C19_Witness ==
    /\ generations[1].pc = "end"
    /\ generations[1].client = 1
    /\ generations[1].tracked # <<>>
    /\ generations[2].pc = "track"
    /\ generations[2].client = 2
    /\ generations[2].client_id = "c-2"

Nodes(graph) == 1..Len(graph.items)

NodeAt(graph, i) == graph.items[i].v

\* The node's kind is kind.
HasKind(node, kind) == GetItemKey(node, "class_type") = Ok(JStr(kind))

\* The node has a title, and sub occurs in it.
TitleHas(node, sub) ==
    LET t == ThenKey(GetItemKey(node, "_meta"), "title")
    IN  t.exc = "" /\ Substring(sub, t.val.s)

\* The first of a non-empty set of positions.
First(S) == CHOOSE i \in S : \A j \in S : i <= j

\* The template is as its constructor left it.
JustConstructed == template.state # "none" /\ template_call.op = "__init__"

MissingModel == template.exc = "ValueError" /\ template.missing = "model"

(***************************************************************************)
(* C21.  The constructor's validation fails with the missing-model error   *)
(* exactly when no node of the graph has the descriptor's model kind: the  *)
(* graph a WorkflowTemplate was constructed over has a model node.         *)
(***************************************************************************)
HasModelNode ==
    \E i \in Nodes(template.workflow_data) :
        HasKind(NodeAt(template.workflow_data, i), template.template_config.model.node_type)

C21_MissingModelNode ==
    /\ JustConstructed => (MissingModel <=> ~HasModelNode)
    /\ template.state = "invalid" => template.exc = "ValueError"
    /\ template.state = "ready" => template.exc = ""

C21_Witness ==
    /\ template.state = "invalid"
    /\ MissingModel
    /\ Len(template.workflow_data.items) = 3
    /\ \E i \in Nodes(template.workflow_data) :
            HasKind(NodeAt(template.workflow_data, i), "CLIPTextEncode")

(***************************************************************************)
(* C22.  On a graph with a model node, validation succeeds exactly when    *)
(* every prompt entry of the descriptor has a node of its kind whose title *)
(* contains the entry's match_meta, if it has a non-empty one (a node      *)
(* without a title never satisfies such an entry; an empty match_meta is   *)
(* no match_meta); otherwise it fails naming the first entry without one.  *)
(***************************************************************************)
Satisfied(graph, entry, configured) ==
    \E i \in Nodes(graph) :
        /\ HasKind(NodeAt(graph, i), entry.node_type)
        /\ configured => TitleHas(NodeAt(graph, i), entry.match_meta.s)

\* The entries that configure a match_meta: a non-empty one; any but None.
NonEmptyMeta(entry) == entry.match_meta \notin {JNull, JStr("")}

AnyMeta(entry) == entry.match_meta # JNull

\* The positions of the descriptor's prompt entries no node satisfies.
UnsatisfiedNonEmpty ==
    {k \in 1..Len(template.template_config.prompts) :
        ~Satisfied(template.workflow_data, template.template_config.prompts[k].slot,
                   NonEmptyMeta(template.template_config.prompts[k].slot))}

UnsatisfiedAny ==
    {k \in 1..Len(template.template_config.prompts) :
        ~Satisfied(template.workflow_data, template.template_config.prompts[k].slot,
                   AnyMeta(template.template_config.prompts[k].slot))}

\* Validation succeeded if no entry of U is unsatisfied, and failed naming
\* the first of U otherwise.
NamesFirstOf(U) ==
    IF U = {} THEN template.state = "ready" /\ template.exc = ""
    ELSE /\ template.state = "invalid"
         /\ template.exc = "ValueError"
         /\ template.missing = template.template_config.prompts[First(U)].name

C22_PromptSlotsValidated ==
    (JustConstructed /\ HasModelNode) => NamesFirstOf(UnsatisfiedNonEmpty)

C22_Witness ==
    /\ JustConstructed
    /\ HasModelNode
    /\ Len(template.template_config.prompts) = 2
    /\ template.missing = "negative"
    /\ \E i \in Nodes(template.workflow_data) :
            /\ HasKind(NodeAt(template.workflow_data, i), "CLIPTextEncode")
            /\ ~TitleHas(NodeAt(template.workflow_data, i), "")

C22_Original ==
    (JustConstructed /\ HasModelNode) => NamesFirstOf(UnsatisfiedAny)

(***************************************************************************)
(* C23.  update_prompts writes a slot's text only in the first node (in    *)
(* graph order) that qualifies for the slot: a node that is not the first  *)
(* qualifying node of any declared slot of the call is left unchanged, and *)
(* a first qualifying node holds, at the slot's path, the text of a slot   *)
(* it is the first node of.                                                *)
(***************************************************************************)
\* The positions of the nodes that qualify for the k-th prompt of the call.
Qualifying(k) ==
    {i \in Nodes(template_call.before) :
        /\ HasKind(NodeAt(template_call.before, i),
                   EntryOf(template.template_config, template_call.prompts[k].name).node_type)
        /\ NonEmptyMeta(EntryOf(template.template_config, template_call.prompts[k].name)) =>
              TitleHas(NodeAt(template_call.before, i),
                       EntryOf(template.template_config, template_call.prompts[k].name).match_meta.s)}

\* The prompts of the call whose slot the descriptor declares.
DeclaredPrompts ==
    {k \in 1..Len(template_call.prompts) :
        \E m \in 1..Len(template.template_config.prompts) :
            template.template_config.prompts[m].name = template_call.prompts[k].name}

\* The prompts of the call the i-th node is the first qualifying node of.
FirstFor(i) == {k \in DeclaredPrompts : Qualifying(k) # {} /\ First(Qualifying(k)) = i}

C23_SetPromptFirstMatchOnly ==
    template_call.op = "update_prompts" =>
        \A i \in Nodes(template_call.before) :
            IF FirstFor(i) = {}
            THEN template_call.after.items[i] = template_call.before.items[i]
            ELSE \E k \in FirstFor(i) :
                    get_node_value(NodeAt(template_call.after, i),
                                   EntryOf(template.template_config,
                                           template_call.prompts[k].name).path)
                        = Ok(template_call.prompts[k].text)

(***************************************************************************)
(* C24.  A slot name the descriptor does not declare is skipped by         *)
(* update_prompts: the call raises nothing, a call with undeclared names   *)
(* only changes nothing, and a call with declared names too leaves the     *)
(* graph as the call with the declared names alone leaves it.              *)
(***************************************************************************)
\* The items of prompts at the positions of S, in order.
RECURSIVE Only(_, _, _)
Only(prompts, S, k) ==
    IF k > Len(prompts) THEN <<>>
    ELSE IF k \in S THEN <<prompts[k]>> \o Only(prompts, S, k + 1)
    ELSE Only(prompts, S, k + 1)

C24_UndeclaredSlotSkipped ==
    template_call.op = "update_prompts" =>
        /\ template_call.exc = ""
        /\ DeclaredPrompts = {} => template_call.after = template_call.before
        /\ template_call.after =
              update_prompts(template_call.before, template.template_config,
                             Only(template_call.prompts, DeclaredPrompts, 1), 1).val

C24_Witness ==
    /\ template_call.op = "update_prompts"
    /\ Len(template_call.prompts) = 3
    /\ DeclaredPrompts = {1, 3}
    /\ template_call.exc = ""
    /\ template_call.after # template_call.before

(***************************************************************************)
(* C25.  get_model_name returns the value at the descriptor's model path   *)
(* of the first node, in graph order, that has the model kind (and raises  *)
(* ValueError when that node lacks the path), and returns "" when no node  *)
(* has the model kind.                                                     *)
(***************************************************************************)
ModelNodes ==
    {i \in Nodes(template_call.before) :
        HasKind(NodeAt(template_call.before, i), template.template_config.model.node_type)}

\* node[path[1]][path[2]]..., for a node whose values on the way are dicts.
RECURSIVE At(_, _)
At(r, path) == IF path = <<>> THEN r ELSE At(ThenKey(r, Head(path)), Tail(path))

C25_ModelNameOfFirstModelNode ==
    template_call.op = "get_model_name" =>
        IF ModelNodes = {} THEN template_call.exc = "" /\ template_call.val = JStr("")
        ELSE LET v == At(Ok(NodeAt(template_call.before, First(ModelNodes))),
                         template.template_config.model.path)
             IN  IF v.exc = "" THEN template_call.exc = "" /\ template_call.val = v.val
                 ELSE template_call.exc = "ValueError"

C25_Witness ==
    /\ template_call.op = "get_model_name"
    /\ Len(template_call.before.items) = 3
    /\ Cardinality(ModelNodes) = 2
    /\ NodeAt(template_call.before, 1) = Checkpoint("flux1-dev-fp8.safetensors")
    /\ NodeAt(template_call.before, 3) = Checkpoint("sd_xl.safetensors")
    /\ template_call.val = JStr("flux1-dev-fp8.safetensors")

(***************************************************************************)
(* Vocabulary of the accessor properties                                   *)
(***************************************************************************)
\* The first n keys of the call's path.
Prefix(n) == SubSeq(template_call.path, 1, n)

\* What node[k1][k2]... evaluates to, for the first n keys of the path.
Reached(node, n) == At(Ok(node), Prefix(n))

\* Every value the path passes through in the node, before its last key, is
\* a mapping.
Traversable(node) ==
    \A n \in 0..(Len(template_call.path) - 1) :
        Reached(node, n).exc = "" => Reached(node, n).val.t = "dict"

(***************************************************************************)
(* C26.  get(node, path) returns the value reached by following the keys   *)
(* of the path through nested mappings, and raises the invalid-path error  *)
(* (ValueError) when a key is absent or a value on the way is not a        *)
(* mapping; it raises nothing else.                                        *)
(***************************************************************************)
C26_GetFollowsPathOrInvalidPath ==
    template_call.op = "get" =>
        LET v == Reached(template_call.node, Len(template_call.path))
        IN  IF v.exc = "" THEN template_call.exc = "" /\ template_call.val = v.val
            ELSE template_call.exc = "ValueError"

(***************************************************************************)
(* C27.  For a non-empty path whose existing intermediate values in the    *)
(* node are mappings, set(node, path, v) raises nothing, leaves a mapping  *)
(* at every intermediate key (one holding only the next key where the key  *)
(* was missing) and v at the final key, and a get(node, path) that follows *)
(* returns v; a get on such a path that is absent and was not set raises   *)
(* ValueError.                                                             *)
(***************************************************************************)
C27_SetGetRoundTrip ==
    (template_call.path # <<>> /\ Traversable(template_call.node)) =>
        /\ template_call.op = "set" =>
              /\ template_call.exc = ""
              /\ Reached(template_call.after, Len(template_call.path)) = Ok(template_call.value)
              /\ \A n \in 1..(Len(template_call.path) - 1) :
                    /\ Reached(template_call.after, n).exc = ""
                    /\ Reached(template_call.after, n).val.t = "dict"
                    /\ Reached(template_call.node, n).exc # "" =>
                          Len(Reached(template_call.after, n).val.items) = 1
        /\ template_call.op = "set_get" =>
              template_call.exc = "" /\ template_call.val = template_call.value
        /\ (template_call.op = "get"
                /\ Reached(template_call.node, Len(template_call.path)).exc # "") =>
              template_call.exc = "ValueError"

C27_Witness ==
    /\ template_call.op = "set_get"
    /\ template_call.path = <<"inputs", "extra", "text">>
    /\ Len(template_call.node.items) = 1
    /\ template_call.value = JInt(7)
    /\ template_call.val = JInt(7)

(***************************************************************************)
(* C28.  set(node, path, value) raises nothing, whatever the node mapping, *)
(* the path of str keys (the empty path and a path through a scalar        *)
(* included) and the value.                                                *)
(***************************************************************************)
C28_SetNeverFails == template_call.op = "set" => template_call.exc = ""

(***************************************************************************)
(* C29.  A request whose workflow name has no template file fails with     *)
(* the configuration error (ValueError) when its GenerationRequest is      *)
(* built: it constructs no client, opens no connection, submits nothing,   *)
(* tracks and fetches nothing, and ends as failed.                         *)
(***************************************************************************)
C29_UnknownWorkflowFailsBeforeConnect ==
    \A g \in Generations :
        LET G == generations[g]
        IN  (G.pc # "new" /\ G.workflow_name \notin TemplateFiles) =>
                /\ G.client = 0
                /\ G.websocket = "None"
                /\ G.status = 0
                /\ G.response = JNull
                /\ G.tracked = <<>>
                /\ G.fetched = <<>>
                /\ G.pc \in {"lock", "refuse", "announce", "except", "end"}
                /\ G.pc = "except" => G.error = "ValueError"
                /\ G.result = "failed" => G.error = "ValueError"
                /\ G.result # "image"

C29_Witness ==
    /\ generations[1].workflow_name = "missing"
    /\ generations[1].pc = "end"
    /\ generations[1].result = "failed"
    /\ generations[1].error = "ValueError"
    /\ generations[2].workflow_name = "default"
    /\ generations[2].pc = "track"

(***************************************************************************)
(* C30.  Rendering a workflow that has a template file, with a context of  *)
(* well-formed fields, raises nothing and returns a graph that passes the  *)
(* validation of a descriptor and whose model name is the context's        *)
(* model_name.                                                             *)
(***************************************************************************)
C30_RenderValidates ==
    (template_call.op = "render" /\ template_call.name \in TemplateFiles) =>
        /\ template_call.exc = ""
        /\ \E config \in Configs :
              /\ validate_workflow(template_call.val, config).exc = ""
              /\ get_model_name(template_call.val, config) = Ok(template_call.value)

(***************************************************************************)
(* C31.  Rendering a workflow that has a template file returns a graph in  *)
(* which the text of a prompt node is the context's positive_prompt,       *)
(* character for character, double quotes included.                        *)
(***************************************************************************)
C31_PromptRoundTrips ==
    (template_call.op = "render" /\ template_call.name \in TemplateFiles) =>
        /\ template_call.exc = ""
        /\ template_call.val.t = "dict"
        /\ \E i \in Nodes(template_call.val) :
              At(Ok(NodeAt(template_call.val, i)), <<"inputs", "text">>)
                  = Ok(template_call.prompts[1].text)

(***************************************************************************)
(* Vocabulary of the properties of the running flag                        *)
(***************************************************************************)
\* The request is past the test of _running and has not left the command.
InProgress(G) ==
    G.pc \in {"announce", "connect", "submit", "track", "fetch", "reply", "except", "closing"}

\* The request is at, or before, the 'async with' of its user's lock.
Arriving(G) == G.pc \in {"new", "lock"}

(***************************************************************************)
(* C32.  At most one request is in progress at any time, whoever its user  *)
(* is, and the flag is set while it is.  A request that enters while the   *)
(* flag is set is refused ("Another image generation is already in         *)
(* progress"): it constructs no client, connects and submits nothing, and  *)
(* leaves the flag as it is; one that enters while the flag is clear sets  *)
(* it.                                                                     *)
(***************************************************************************)
C32_OneGenerationAtATime ==
    /\ [](Cardinality({g \in Generations : InProgress(generations[g])}) <= 1)
    /\ [](\A g \in Generations :
            /\ InProgress(generations[g]) => running
            /\ (generations[g].pc = "refuse" \/ generations[g].result = "refused") =>
                  /\ generations[g].client = 0
                  /\ generations[g].websocket = "None"
                  /\ generations[g].status = 0
                  /\ generations[g].tracked = <<>>
                  /\ generations[g].fetched = <<>>)
    /\ [][\A g \in Generations :
            /\ (Arriving(generations[g]) /\ InLock(generations'[g])) =>
                  IF running
                  THEN generations'[g].pc = "refuse" /\ running'
                  ELSE generations'[g].pc = "announce" /\ running'
            /\ (generations[g].pc = "refuse" /\ generations'[g].pc # "refuse") =>
                  (generations'[g].pc = "end" /\ running' = running)]_vars

C32_Witness ==
    /\ generations[1].user # generations[2].user
    /\ generations[1].pc = "track"
    /\ generations[2].pc = "end"
    /\ generations[2].result = "refused"
    /\ running

(***************************************************************************)
(* C33.  A request that has set the running flag is followed by a state    *)
(* in which the flag is clear, whichever of its steps fails: sending the   *)
(* initial response, building the request, connect, submit, track, fetch   *)
(* or editing the reply.                                                   *)
(***************************************************************************)
C33_RunningEventuallyCleared ==
    \A g \in Generations : (generations[g].pc = "announce") ~> ~running

(***************************************************************************)
(* C34.  Every client a request constructs is closed, exactly once, and    *)
(* the user's lock is held from the construction until close() has         *)
(* returned, which is when the request leaves the lock; this on the        *)
(* success path and when connect, the rendering, the submission, the       *)
(* tracking or the fetch fails.                                            *)
(***************************************************************************)
C34_ClientClosedOnceInLock ==
    /\ [](\A g \in Generations :
            LET G == generations[g]
            IN  /\ G.closed <= 1
                /\ G.closed = 1 => G.client # 0
                /\ (G.client # 0 /\ G.closed = 0) => (InLock(G) /\ G.lock \in locked)
                /\ (G.client # 0 /\ G.pc = "end") => G.closed = 1)
    /\ [][\A g \in Generations :
            generations'[g].closed # generations[g].closed =>
                /\ generations[g].pc = "closing"
                /\ generations[g].lock \in locked]_vars
    /\ [][\A g \in Generations :
            (generations[g].client # 0 /\ InLock(generations[g]) /\ ~InLock(generations'[g])) =>
                /\ generations'[g].closed = 1
                /\ generations'[g].lock \notin locked']_vars

C34_Witness ==
    /\ generations[1].pc = "end"
    /\ generations[1].client # 0
    /\ generations[1].error = "ConnectionClosed"
    /\ generations[1].result = "failed"
    /\ generations[1].closed = 1
    /\ generations[1].lock \notin locked
    /\ generations[2].pc = "end"
    /\ generations[2].result = "image"
    /\ generations[2].closed = 1

(***************************************************************************)
(* C35.  track_progress called on a client that never connected, or on     *)
(* which close() has closed the connection, raises RuntimeError ("Not      *)
(* connected to ComfyUI") at once: no frame is read and the callback is    *)
(* not called, then or later.                                              *)
(***************************************************************************)
C35_NotConnectedFailsAtOnce ==
    /\ [][(pc = "idle" /\ pc' # "idle" /\ conn \in {"none", "closed"}) =>
            /\ pc' = "failed"
            /\ error' = "RuntimeError"
            /\ returned' = NotReturned
            /\ received' = <<>>
            /\ forwarded' = <<>>]_vars
    /\ [](error = "RuntimeError" =>
            /\ pc = "failed"
            /\ conn \in {"none", "closed"}
            /\ received = <<>>
            /\ forwarded = <<>>)

C35_Witness ==
    /\ conn = "closed"
    /\ handshake # <<>>
    /\ callback = "observer"
    /\ pc = "failed"
    /\ error = "RuntimeError"

(***************************************************************************)
(* C36.  A request submits only after connect() has returned, having read  *)
(* the server's first frame; between connect() and track_progress no       *)
(* frame is read, so tracking starts at the first frame the server sent    *)
(* after that one, and a tracking that returns has read every frame of     *)
(* the submission up to its terminal 'executing' frame.                    *)
(***************************************************************************)
C36_EventsUnreadWhenTrackingStarts ==
    /\ [](\A g \in Generations :
            LET G == generations[g]
            IN  /\ G.status # 0 => G.recvs >= 1
                /\ G.pc \in {"submit", "track"} => (G.websocket = "open" /\ G.recvs = 1)
                /\ G.pc = "fetch" =>
                      G.recvs = IF G.image_filename = JStr("") THEN 2 ELSE 4)
    /\ [][\A g \in Generations :
            generations'[g].recvs # generations[g].recvs =>
                \/ generations[g].pc = "connect" /\ generations[g].recvs = 0
                \/ generations[g].pc = "track"]_vars

C36_Witness ==
    /\ generations[1].pc = "fetch"
    /\ generations[1].status = 200
    /\ generations[1].image_filename = JStr("out_001.png")
    /\ generations[1].recvs = 4

(***************************************************************************)
(* C37.  A filename that track_progress(P) returns is the filename of an   *)
(* 'executed' frame of submission P that it received, not one recorded     *)
(* from an 'executed' frame of another submission.                         *)
(***************************************************************************)
C37_FilenameOfOwnSubmission ==
    (pc = "done" /\ returned.val # JStr("")) =>
        \E i \in 1..Len(received) :
            received[i] = TextFrame(ExecutedDoc(returned.val.s, prompt_id))

(***************************************************************************)
(* Vocabulary of the properties of the observer's turn                     *)
(***************************************************************************)
\* The text frames received, and those of them that parse.
TextReceived == SelectSeq(received, LAMBDA frame : frame.kind = "text")

ParsedReceived == SelectSeq(received, LAMBDA frame : frame.kind = "text" /\ frame.wf)

\* The events passed to the callback that are not previews.
TextForwarded == SelectSeq(forwarded, LAMBDA event : ~IsPreviewEvent(event))

\* The callback was passed the documents of the frames S, in order.
PassedOn(S) == callback # "None" => TextForwarded = [i \in 1..Len(S) |-> S[i].doc]

\* While the callback is awaited the frame has had no effect; a callback
\* that raises before its await fails the call with its exception, and the
\* exception of its await is the error of a failed call only; a call that
\* fails leaves the filename as it was before the frame, returns nothing
\* and reads nothing more.
ObserverBeforeEffect ==
    /\ [](pc = "callback" =>
            /\ returned = NotReturned
            /\ image_filename = RecordedAfter(received, Len(received) - 1))
    /\ [][(pc = "recv" /\ received' # received /\ callback # "None"
                /\ Last(received').kind = "text" /\ Last(received').wf
                /\ CallCallback(callback, Last(received').doc).exc # "") =>
            /\ pc' = "failed"
            /\ error' = CallCallback(callback, Last(received').doc).exc]_vars
    /\ []((callback # "None" /\ error = CallbackError(callback)) =>
            (pc = "failed" /\ returned = NotReturned))
    /\ [][(pc \in {"recv", "callback"} /\ pc' = "failed") =>
            /\ image_filename' = image_filename
            /\ returned' = NotReturned]_vars
    /\ [][pc = "failed" =>
            (pc' = "failed" /\ received' = received /\ forwarded' = forwarded)]_vars

(***************************************************************************)
(* C38.  Every text frame received that parses as JSON is passed to the    *)
(* callback before its own effect is applied, the terminal 'executing'     *)
(* frame included; if the callback raises, track_progress fails with that  *)
(* exception, the frame has no effect (no filename recorded, no return)    *)
(* and no further frame is read.                                           *)
(***************************************************************************)
C38_ObserverBeforeEffect == [](PassedOn(ParsedReceived)) /\ ObserverBeforeEffect

C38_Witness ==
    /\ callback = "observer"
    /\ received = <<TextFrame(ExecutedDoc("out_001.png", "abc")), TextFrame(TerminalDoc("abc"))>>
    /\ prompt_id = "abc"
    /\ forwarded = <<ExecutedDoc("out_001.png", "abc"), TerminalDoc("abc")>>
    /\ pc = "failed"
    /\ error = "ObserverError"
    /\ image_filename = JStr("out_001.png")
    /\ returned = NotReturned

\* C38 as stated: every text frame received is passed to the callback,
\* whether it parses or not.
C38_Original == [](PassedOn(TextReceived)) /\ ObserverBeforeEffect

(***************************************************************************)
(* C39.  A binary frame of at least 4 bytes whose event type is not 1      *)
(* (PREVIEW_IMAGE) is ignored: it is not passed to the callback, it does   *)
(* not end the tracking, it raises nothing, and the recorded filename      *)
(* stays as it is; the next frame is awaited.                              *)
(***************************************************************************)
C39_UnknownBinaryIgnored ==
    [][Handles(UnknownBinaryFrames) =>
        /\ pc' = "recv"
        /\ error' = ""
        /\ returned' = NotReturned
        /\ forwarded' = forwarded
        /\ image_filename' = image_filename]_vars

C39_Witness ==
    /\ callback = "observer"
    /\ received = <<TextFrame(ExecutedDoc("out_001.png", "abc")), BinaryFrame(<<1, 0, 0, 0>>),
                    BinaryFrame(<<0, 0, 0, 2, 0, 0, 0, 1, 7>>)>>
    /\ forwarded = <<ExecutedDoc("out_001.png", "abc")>>
    /\ pc = "recv"
    /\ image_filename = JStr("out_001.png")

====
